---- MODULE Spec2Model ----
(***************************************************************************)
(* A model of analyze-codebase: the line classifier                        *)
(* (analyzeLineCountByCategory), the translation-key resolver              *)
(* (flattenKeys, findUnusedKeys, removeKeyFromObject,                      *)
(* analyzeAndRemoveUnusedKeys), the cancellation flag and the content      *)
(* analyzer (analyzeCodebase).                                             *)
(*                                                                         *)
(* Strings are sequences of one-character strings, so that trim, split,    *)
(* startsWith, endsWith and includes are computed as the code computes     *)
(* them.                                                                   *)
(***************************************************************************)
EXTENDS Integers, Sequences, FiniteSets, TLC

VARIABLES
    \* ---- analyzeLineCountByCategory ----
    lines,        \* fileContent.split('\n') of the file being classified
    lineIndex,    \* the outer loop's index (0-based, as in the code)
    output,       \* the ICodeContentType accumulator
    lcPc,         \* "idle" | "loop": position inside analyzeLineCountByCategory
    lcFed,        \* observer: sum of lines.length over the calls made so far
    lcCalls,      \* observer: number of completed calls
    lcContent,    \* observer: the file content of the current / last call
    \* ---- flattenKeys / removeKeyFromObject ----
    trTree,       \* the parsed translation tree (JSON.parse of the i18n file)
    trObj,        \* i18nContent, the object removeKeyFromObject mutates
    trFlat,       \* the FlattenedKey[] flattenKeys returned
    trSel,        \* indices (into trFlat) of the keys to remove
    trRemoved,    \* indices whose removeKeyFromObject call has been made
    trPc,         \* "parsed" | "flat" | "removing" | "off"
    \* ---- findUnusedKeys / analyzeAndRemoveUnusedKeys ----
    globalCancelled, \* the module-level cancellation flag
    ksTermTimer,     \* the exit timer armed by the SIGTERM handler
    ksDisk,          \* the translation file on disk: [ok, tree]
    ksTree,          \* observer: the translation file at the start of the run
    ksFiles,         \* the source files collectFiles returns: [content, readable]
    ksProvided,      \* options.maxConcurrency (0: not given)
    ksPc,            \* position of analyzeAndRemoveUnusedKeys, or how the process ended
    ksFind,          \* findUnusedKeys: "running" | "returned" | "cancelled" | "failed"
    ksAllKeys,       \* allKeys
    ksBatches,       \* batches, as lists of indices into files
    ksBatchNo,       \* index (0-based) of the batch in flight
    ksWorker,        \* per file: "new" | "reading" | "fulfilled" | "rejected"
    usedKeys,
    dynamicKeys,
    ksStatic,        \* observer: the keys a static pattern marked used
    processedFiles,
    ksUnused,        \* the unusedKeys findUnusedKeys returned
    ksAnswer,        \* the answer typed at the confirmation prompt
    ksContent,       \* i18nContent of analyzeAndRemoveUnusedKeys after the removals
    ksWrites,        \* observer: writeFile calls on the translation file
    ksCancelAt,      \* observer of the setting of the flag: [when, batch,
                     \* reading, used, processed] at that moment
    \* ---- analyzeCodebase ----
    cbFiles,         \* the files collectFiles returns: [path, content, readable]
    cbOpts,          \* options: [checkFileNames, checkFileContent]
    cbWidths,        \* options.maxConcurrency of the two runs (0: not given)
    cbRun,           \* which of the two runs is going on
    cbPc,            \* position of analyzeCodebase, or how the run ended
    cbCancelled,     \* the cancellation flag of the running process
    cbTermTimer,     \* the exit timer armed by the SIGTERM handler
    cbChunks,        \* chunks, as lists of indices into files
    cbChunkNo,       \* index (0-based) of the chunk being processed
    cbWorker,        \* per file: "new" | "fulfilled" | "rejected" | "cancelled"
    cbIndex,         \* the sequential loop's position (0-based)
    cbOutput,        \* the ICodeContentType accumulator of the run
    cbCases,         \* fileNameCases of the run
    cbLogged,        \* what the run handed to logOutput
    cbFirst,         \* observer: how the first run ended and what it logged
    \* ---- findConfigFile / loadConfig / createConfigFile ----
    cfFs,            \* per directory: the config file in it, [exists, text]
    cfPc,            \* "idle" | "search" | "read" | "done" | "off"
    cfCaller,        \* "find": findConfigFile was called, "load": loadConfig
    cfDir,           \* the directory argument of the call
    cfCur,           \* currentDir
    cfResult,        \* what findConfigFile returned: [isNull, path]
    cfLoaded,        \* what loadConfig returned: [isNull, config]
    cfCreated,       \* the createConfigFile call made: [done, dir, config, path]
    \* ---- mergeOptions / program.action ----
    opConfig,        \* what loadConfig returned: [isNull, then the fields]
    opCli,           \* the options commander parsed from the command line
    opCpus,          \* os.cpus().length
    opPc,            \* "parsed" | "run" | "refused" | "off"
    opFinal,         \* finalOptions, handed to runner
    \* ---- the choice of the width ----
    wdFileCount,     \* files.length
    wdProvided,      \* options.maxConcurrency (0: not given)
    wdKeys,          \* maxConcurrency of findUnusedKeys (0: not computed yet)
    wdCodebase,      \* maxConcurrency of analyzeCodebase (0: not computed yet)
    \* ---- whatCase ----
    ncName,          \* the string whatCase is given
    ncLabel,         \* the label that was returned ("" before the call)
    ncFn,            \* "" | "whatCase" | "analyzeFileName": what was called
    \* ---- CancellationToken / handleSignal / resetCancellation ----
    tkCancelled,     \* globalCancelled
    tkRegistered,    \* signalHandlerRegistered
    tkListeners,     \* listeners: the registrations, by number, in push order
    tkToken,         \* a CancellationToken has been constructed
    tkTimer,         \* the setTimeout of the SIGTERM handler is pending
    tkExit,          \* "running" | "exit130" | "exit143" | "killed"
    tkOp,            \* the last operation: [name, result]
    tkRegs,          \* observer: per registration [throws, early, epoch]
    tkSets,          \* observer: per setting of the flag [epoch, regs]
    tkInvoked,       \* observer: the registrations invoked, in order
    tkResets,        \* observer: the calls of resetCancellation so far
    \* ---- writeAnalyzeResult ----
    stDir,           \* the directory .analyze-codebase exists
    stData,          \* what .analyze-codebase/data.json holds (NoData: no file)
    stPc,            \* "idle" | "migrate" | "append" | "off"
    stArg,           \* the result the call in progress was given
    stOutcome,       \* "" | "resolved" | "rejected": how the last call ended
    stCalls,         \* observer: the calls made so far
    stWritten        \* observer: the results of the calls that resolved

lcVars == <<lines, lineIndex, output, lcPc, lcFed, lcCalls, lcContent>>

trVars == <<trTree, trObj, trFlat, trSel, trRemoved, trPc>>

ksVars == <<globalCancelled, ksTermTimer, ksDisk, ksTree, ksFiles, ksProvided,
           ksPc, ksFind, ksAllKeys, ksBatches, ksBatchNo, ksWorker, usedKeys,
           dynamicKeys, ksStatic, processedFiles, ksUnused, ksAnswer, ksContent,
           ksWrites, ksCancelAt>>

cbVars == <<cbFiles, cbOpts, cbWidths, cbRun, cbPc, cbCancelled, cbTermTimer,
           cbChunks, cbChunkNo, cbWorker, cbIndex, cbOutput, cbCases, cbLogged,
           cbFirst>>

cfVars == <<cfFs, cfPc, cfCaller, cfDir, cfCur, cfResult, cfLoaded, cfCreated>>

opVars == <<opConfig, opCli, opCpus, opPc, opFinal>>

wdVars == <<wdFileCount, wdProvided, wdKeys, wdCodebase>>

ncVars == <<ncName, ncLabel, ncFn>>

tkVars == <<tkCancelled, tkRegistered, tkListeners, tkToken, tkTimer, tkExit,
            tkOp, tkRegs, tkSets, tkInvoked, tkResets>>

stVars == <<stDir, stData, stPc, stArg, stOutcome, stCalls, stWritten>>

vars == <<lcVars, trVars, ksVars, cbVars, cfVars, opVars, wdVars, ncVars, tkVars,
          stVars>>

----------------------------------------------------------------------------
(* Bounds *)

MaxLines == 2   \* longest enumerated file content, in lines
MaxCalls == 2   \* files classified on one accumulator
MaxNodes == 3   \* most entries (nested ones included) of an enumerated tree
MaxFiles == 2   \* most source files of a run
MaxWidth == 2   \* largest maxConcurrency given as an option
MaxDepth == 2   \* deepest directory below the file system root
MaxCount == 501 \* largest number of discovered files the width is chosen for
MaxName == 2    \* longest enumerated name, in characters
MaxCallbacks == 2   \* most callbacks registered with onCancel
MaxResets == 1  \* most calls of resetCancellation
MaxWrites == 3  \* most calls of writeAnalyzeResult

----------------------------------------------------------------------------
(* String primitives of JavaScript, on sequences of characters *)

NL == "\n"

Whitespace == {" ", "\t", "\r", NL}

StartsWith(s, p) == Len(p) <= Len(s) /\ SubSeq(s, 1, Len(p)) = p

EndsWith(s, p) == Len(p) <= Len(s) /\ SubSeq(s, Len(s) - Len(p) + 1, Len(s)) = p

Includes(s, p) == \E i \in 1..(Len(s) - Len(p) + 1) : SubSeq(s, i, i + Len(p) - 1) = p

RECURSIVE TrimStart(_)
TrimStart(s) ==
    IF s # <<>> /\ Head(s) \in Whitespace THEN TrimStart(Tail(s)) ELSE s

RECURSIVE TrimEnd(_)
TrimEnd(s) ==
    IF s # <<>> /\ s[Len(s)] \in Whitespace
    THEN TrimEnd(SubSeq(s, 1, Len(s) - 1))
    ELSE s

Trim(s) == TrimEnd(TrimStart(s))

\* s.split(c) for a one-character separator c: always at least one piece
RECURSIVE SplitChar(_, _)
SplitChar(s, c) ==
    IF \E i \in 1..Len(s) : s[i] = c
    THEN LET i == CHOOSE k \in 1..Len(s) :
                      s[k] = c /\ \A j \in 1..(k - 1) : s[j] # c
         IN  <<SubSeq(s, 1, i - 1)>> \o SplitChar(SubSeq(s, i + 1, Len(s)), c)
    ELSE <<s>>

\* pieces.join(sep)
RECURSIVE Join(_, _)
Join(pieces, sep) ==
    IF pieces = <<>> THEN <<>>
    ELSE IF Len(pieces) = 1 THEN pieces[1]
    ELSE pieces[1] \o sep \o Join(Tail(pieces), sep)

\* all sequences over S of length lo..hi
SeqsOf(S, lo, hi) == UNION {[1..n -> S] : n \in lo..hi}

----------------------------------------------------------------------------
(* analyzeLineCountByCategory *)

SLASH2 == <<"/", "/">>
OPEN   == <<"/", "*">>
CLOSE  == <<"*", "/">>
STAR   == <<"*">>
TODO   == <<"T", "O", "D", "O">>

isSingleLineComment(line) == StartsWith(line, SLASH2)

isBlockComment(line) == StartsWith(line, OPEN) /\ EndsWith(line, CLOSE)

isMixedComment(line) ==
    (StartsWith(line, OPEN) /\ ~EndsWith(line, CLOSE)) \/ StartsWith(line, STAR)

isEmptyBlockComment(line) == StartsWith(line, OPEN) /\ ~EndsWith(line, CLOSE)

isToDo(line) == Includes(line, TODO)

ZeroOutput ==
    [Physical |-> 0, Source |-> 0, Comment |-> 0, SingleLineComment |-> 0,
     BlockComment |-> 0, Mixed |-> 0, EmptyBlockComment |-> 0, Empty |-> 0,
     ToDo |-> 0]

\* the inner while loop: the number of lines, from index i on (0-based), it
\* steps over before it meets an untrimmed line that ends with the close marker
RECURSIVE BlockCommentLines(_, _)
BlockCommentLines(ls, i) ==
    IF i < Len(ls) /\ ~EndsWith(ls[i + 1], CLOSE)
    THEN 1 + BlockCommentLines(ls, i + 1)
    ELSE 0

\* Physical++ of one iteration of the outer loop
CountPhysical(out) == [out EXCEPT !.Physical = @ + 1]

\* the classification of one iteration of the outer loop (the if / else-if chain)
Classify(ls, i, out) ==
    LET line == Trim(ls[i + 1])
        n    == BlockCommentLines(ls, i)
    IN  IF line = <<>> THEN
            [idx |-> i, out |-> [out EXCEPT !.Empty = @ + 1]]
        ELSE IF isSingleLineComment(line) THEN
            [idx |-> i,
             out |-> [out EXCEPT !.SingleLineComment = @ + 1, !.Comment = @ + 1]]
        ELSE IF isBlockComment(line) THEN
            [idx |-> i,
             out |-> [out EXCEPT !.BlockComment = @ + 1, !.Comment = @ + 1]]
        ELSE IF isMixedComment(line) THEN
            [idx |-> i + n,
             out |-> IF isEmptyBlockComment(line)
                     THEN [out EXCEPT !.Mixed = @ + 1, !.Comment = @ + 1,
                                      !.EmptyBlockComment = @ + n]
                     ELSE [out EXCEPT !.Mixed = @ + 1, !.Comment = @ + 1,
                                      !.BlockComment = @ + n]]
        ELSE [idx |-> i, out |-> out]

\* an iteration that goes on with the line after the one it classified,
\* whatever the inner loop stepped over
LineStep_IgnoresBlock(ls, i, out) ==
    LET c    == Classify(ls, i, CountPhysical(out))
        line == Trim(ls[i + 1])
    IN  [idx |-> i + 1,
         out |-> IF isToDo(line) THEN [c.out EXCEPT !.ToDo = @ + 1] ELSE c.out]

\* one whole iteration of the outer while loop
LineStep(ls, i, out) ==
    LET c    == Classify(ls, i, CountPhysical(out))
        line == Trim(ls[i + 1])
    IN  [idx |-> c.idx + 1,
         out |-> IF isToDo(line) THEN [c.out EXCEPT !.ToDo = @ + 1] ELSE c.out]

SourceOf_ForgetsToDo(out) == out.Physical - out.Comment - out.Empty

\* the assignment to output.Source after the loop
SourceOf(out) == out.Physical - out.Comment - out.Empty - out.ToDo

\* the loop run to its end, from index i
RECURSIVE RunLines(_, _, _)
RunLines(ls, i, out) ==
    IF i < Len(ls)
    THEN LET s == LineStep(ls, i, out) IN RunLines(ls, s.idx, s.out)
    ELSE out

\* the whole function on a file that was read
analyzeLineCountByCategory(content, out) ==
    LET o == RunLines(SplitChar(content, NL), 0, out)
    IN  [o EXCEPT !.Source = SourceOf(o)]

\* lines the enumerated file contents are made of
LineSamples ==
    { <<>>,
      <<"/", "/", " ", "a">>,
      <<"/", "*", " ", "a">>,
      <<" ", "b">>,
      <<" ", "c", " ", "*", "/">>,
      <<"/", "*", "x", "*", "/">>,
      <<"*", " ", "T", "O", "D", "O">> }

\* "// a\n// b\n"
TwoSingleLineComments ==
    <<"/", "/", " ", "a", NL, "/", "/", " ", "b", NL>>

\* "/* a\n b\n c */\n"
ThreeLineBlock ==
    <<"/", "*", " ", "a", NL, " ", "b", NL, " ", "c", " ", "*", "/", NL>>

Contents ==
    {Join(ls, <<NL>>) : ls \in SeqsOf(LineSamples, 1, MaxLines)}
        \cup {TwoSingleLineComments, ThreeLineBlock}

LcInit ==
    /\ lines = <<>>
    /\ lineIndex = 0
    /\ output = ZeroOutput
    /\ lcPc = "idle"
    /\ lcFed = 0
    /\ lcCalls = 0
    /\ lcContent = <<>>

\* readFileSync and split: the function is entered for one more file
LcStart(content) ==
    /\ lcPc = "idle"
    /\ lcCalls < MaxCalls
    /\ lines' = SplitChar(content, NL)
    /\ lineIndex' = 0
    /\ lcPc' = "loop"
    /\ lcFed' = lcFed + Len(SplitChar(content, NL))
    /\ lcContent' = content
    /\ UNCHANGED <<output, lcCalls>>

\* one iteration of while (lineIndex < lines.length)
LcIter ==
    /\ lcPc = "loop"
    /\ lineIndex < Len(lines)
    /\ LET s == LineStep(lines, lineIndex, output)
       IN  /\ lineIndex' = s.idx
           /\ output' = s.out
    /\ UNCHANGED <<lines, lcPc, lcFed, lcCalls, lcContent>>

\* the loop is left, Source is assigned and the function returns
LcFinish ==
    /\ lcPc = "loop"
    /\ lineIndex >= Len(lines)
    /\ output' = [output EXCEPT !.Source = SourceOf(output)]
    /\ lcPc' = "idle"
    /\ lcCalls' = lcCalls + 1
    /\ UNCHANGED <<lines, lineIndex, lcFed, lcContent>>

LcNext ==
    \/ \E content \in Contents : LcStart(content)
    \/ LcIter
    \/ LcFinish

----------------------------------------------------------------------------
(* Claims about analyzeLineCountByCategory *)

\* C1: after every call, Physical is the total number of physical lines
\* (the pieces of content.split('\n')) of the files classified so far on
\* this accumulator, whatever the lines contain.
C1_PhysicalIsLineCount == lcPc = "idle" => output.Physical = lcFed

\* C2: after every call, also after several calls on one accumulator,
\* Source = Physical - Comment - Empty - ToDo.
C2_SourceIdentity ==
    (lcPc = "idle" /\ lcCalls > 0) =>
        output.Source = output.Physical - output.Comment - output.Empty - output.ToDo

C2_Witness ==
    /\ lcPc = "idle"
    /\ lcCalls = MaxCalls
    /\ output.ToDo > 0
    /\ output.Comment > 0
    /\ output.Empty > 0

\* C3: "/* a\n b\n c */\n" on a zeroed accumulator gives Physical = 3,
\* Mixed = 1, BlockComment = 2, Comment = 3: the opener is Mixed, the lines
\* after it up to and including the closing line are BlockComment and Comment.
C3_ThreeLineBlockCounts ==
    (lcPc = "idle" /\ lcCalls = 1 /\ lcContent = ThreeLineBlock) =>
        /\ output.Physical = 3
        /\ output.Mixed = 1
        /\ output.BlockComment = 2
        /\ output.Comment = 3

\* C4: "// a\n// b\n" on a zeroed accumulator gives Physical = 2,
\* SingleLineComment = 2, Comment = 2, Empty = 0 and Source = 0.
C4_TwoSingleLineCommentCounts ==
    (lcPc = "idle" /\ lcCalls = 1 /\ lcContent = TwoSingleLineComments) =>
        /\ output.Physical = 2
        /\ output.SingleLineComment = 2
        /\ output.Comment = 2
        /\ output.Empty = 0
        /\ output.Source = 0


----------------------------------------------------------------------------
(* Translation trees *)

(* An object is the sequence of its own enumerable entries in for-in order.  *)
(* An entry is [key, kind, val, kids]: kind is the JavaScript kind of the   *)
(* value ("object", "array", "string", "null"), val the scalar, kids the    *)
(* entries of an object or array value.                                     *)

DOT == "."

KeyA == <<"a">>
KeyB == <<"b">>
KeyC == <<"c">>
KeyD == <<"d">>
KeyEmpty == <<>>

Keys == {KeyA, KeyB, KeyEmpty}

StringEntry(k, v)  == [key |-> k, kind |-> "string", val |-> v, kids |-> <<>>]
NullEntry(k)       == [key |-> k, kind |-> "null", val |-> "", kids |-> <<>>]
ArrayEntry(k)      == [key |-> k, kind |-> "array", val |-> "", kids |-> <<>>]
ObjectEntry(k, ks) == [key |-> k, kind |-> "object", val |-> "", kids |-> ks]

LeafEntries(k) == {StringEntry(k, "x"), NullEntry(k), ArrayEntry(k)}

KeysOf(obj) == {obj[i].key : i \in 1..Len(obj)}

\* the objects that have exactly n entries, nested entries included
RECURSIVE ObjectsOfSize(_)
ObjectsOfSize(n) ==
    IF n = 0 THEN {<<>>}
    ELSE UNION {
           UNION {
             { <<e>> \o rest :
                 e \in UNION { IF m = 0
                               THEN LeafEntries(k) \cup {ObjectEntry(k, <<>>)}
                               ELSE {ObjectEntry(k, ks) : ks \in ObjectsOfSize(m)}
                               : k \in Keys \ KeysOf(rest) } }
             : rest \in ObjectsOfSize(n - 1 - m) }
           : m \in 0..(n - 1) }

\* {"a":{"b":"x","c":"y"},"d":"z"}
ExampleTree ==
    << ObjectEntry(KeyA, <<StringEntry(KeyB, "x"), StringEntry(KeyC, "y")>>),
       StringEntry(KeyD, "z") >>

\* the key "a.b", a segment that holds the separator
KeyDotted == <<"a", DOT, "b">>

\* {"a.b":"x","a":{"b":"y"}}
DottedTree ==
    << StringEntry(KeyDotted, "x"),
       ObjectEntry(KeyA, <<StringEntry(KeyB, "y")>>) >>

Trees == UNION {ObjectsOfSize(n) : n \in 0..MaxNodes} \cup {ExampleTree, DottedTree}

\* typeof value === "object" && value !== null && !Array.isArray(value)
IsNestedObject(e) == e.kind = "object"

\* prefix ? prefix + '.' + key : key   (the empty string is falsy)
CurrentPath(prefix, key) ==
    IF prefix # <<>> THEN prefix \o <<DOT>> \o key ELSE key

\* flattenKeys(obj, prefix, originalPath), the for-in loop from entry i on
RECURSIVE FlattenFrom(_, _, _, _)
FlattenFrom(obj, i, prefix, originalPath) ==
    IF i > Len(obj) THEN <<>>
    ELSE LET e == obj[i]
             currentPath == CurrentPath(prefix, e.key)
             currentOriginalPath == Append(originalPath, e.key)
             here == IF IsNestedObject(e)
                     THEN FlattenFrom(e.kids, 1, currentPath, currentOriginalPath)
                     ELSE << [path |-> currentPath,
                              value |-> [kind |-> e.kind, val |-> e.val],
                              originalPath |-> currentOriginalPath] >>
         IN  here \o FlattenFrom(obj, i + 1, prefix, originalPath)

flattenKeys(obj) == FlattenFrom(obj, 1, <<>>, <<>>)

\* delete obj[key]
DeleteKey(obj, key) == SelectSeq(obj, LAMBDA e : e.key # key)

HasKey(obj, key) == \E i \in 1..Len(obj) : obj[i].key = key

EntryOf(obj, key) == obj[CHOOSE i \in 1..Len(obj) : obj[i].key = key]

\* obj[currentKey] && typeof obj[currentKey] === "object"
IsTruthyObject(obj, key) ==
    HasKey(obj, key) /\ EntryOf(obj, key).kind \in {"object", "array"}

CleanUpEmpty_Never(obj, key) == obj

\* Object.keys(obj[currentKey]).length === 0, after the recursive call
CleanUpEmpty(obj, key) ==
    IF EntryOf(obj, key).kids = <<>> THEN DeleteKey(obj, key) ELSE obj

\* removeKeyFromObject(obj, path); the mutated obj is the result
RECURSIVE removeKeyFromObject(_, _)
removeKeyFromObject(obj, path) ==
    IF path = <<>> THEN obj
    ELSE LET currentKey == Head(path)
             remainingPath == Tail(path)
         IN  IF remainingPath = <<>> THEN DeleteKey(obj, currentKey)
             ELSE IF IsTruthyObject(obj, currentKey)
             THEN LET inner == removeKeyFromObject(EntryOf(obj, currentKey).kids,
                                                   remainingPath)
                      navigated ==
                          [i \in 1..Len(obj) |->
                              IF obj[i].key = currentKey
                              THEN [obj[i] EXCEPT !.kids = inner]
                              ELSE obj[i]]
                  IN  CleanUpEmpty(navigated, currentKey)
             ELSE obj

TrIdle ==
    /\ trTree = <<>>
    /\ trObj = <<>>
    /\ trFlat = <<>>
    /\ trSel = {}
    /\ trRemoved = {}
    /\ trPc = "off"

TrInit ==
    /\ trTree \in Trees
    /\ trObj = trTree
    /\ trFlat = <<>>
    /\ trSel = {}
    /\ trRemoved = {}
    /\ trPc = "parsed"

\* const allKeys = flattenKeys(i18nContent)
TrFlatten ==
    /\ trPc = "parsed"
    /\ trFlat' = flattenKeys(trTree)
    /\ trPc' = "flat"
    /\ UNCHANGED <<trTree, trObj, trSel, trRemoved>>

\* a subset of the flattened keys is handed over for removal
TrSelect(S) ==
    /\ trPc = "flat"
    /\ trSel' = S
    /\ trPc' = "removing"
    /\ UNCHANGED <<trTree, trObj, trFlat, trRemoved>>

\* removeKeyFromObject(i18nContent, key.originalPath) for one more key
TrRemove(i) ==
    /\ trPc = "removing"
    /\ i \in trSel \ trRemoved
    /\ trObj' = removeKeyFromObject(trObj, trFlat[i].originalPath)
    /\ trRemoved' = trRemoved \cup {i}
    /\ UNCHANGED <<trTree, trFlat, trSel, trPc>>

TrNext ==
    \/ TrFlatten
    \/ \E S \in SUBSET (1..Len(trFlat)) : TrSelect(S)
    \/ \E i \in 1..Len(trFlat) : TrRemove(i)

----------------------------------------------------------------------------
(* The usage patterns of findUnusedKeys, matched on the characters of a     *)
(* file.  A key is escaped before it is put into a pattern, so it stands    *)
(* for itself in the match.                                                 *)

\* the three quote characters, by name
SQUOTE == "SQUOTE"
DQUOTE == "DQUOTE"
BACKTICK == "BACKTICK"

Quotes == {SQUOTE, DQUOTE, BACKTICK}

CharAt(s, i) == IF i >= 1 /\ i <= Len(s) THEN s[i] ELSE "<none>"

\* s has the literal p at position i
LitAt(s, i, p) ==
    i >= 1 /\ i + Len(p) - 1 <= Len(s) /\ SubSeq(s, i, i + Len(p) - 1) = p

\* \s* from position i: the first position that holds no white space
RECURSIVE SkipSpace(_, _)
SkipSpace(s, i) ==
    IF i <= Len(s) /\ s[i] \in Whitespace THEN SkipSpace(s, i + 1) ELSE i

\* no character of cs at the positions from..to
NoneOf(s, from, to, cs) == \A k \in from..to : s[k] \notin cs

\* (?:t|i18n\.t|\$t|translate): the positions right after a match
CallEnds(s) ==
    {i + 1 : i \in {k \in 1..Len(s) : s[k] = "t"}}
        \cup {i + 9 : i \in {k \in 1..Len(s) :
                 LitAt(s, k, <<"t", "r", "a", "n", "s", "l", "a", "t", "e">>)}}

\* (?:t|i18n\.t|\$t|translate)\s*\( : the positions right after the "("
CallOpens(s) ==
    {SkipSpace(s, e) + 1 : e \in {x \in CallEnds(s) : CharAt(s, SkipSpace(s, x)) = "("}}

\* QUOTE key QUOTE at position i, QUOTE being one of the three quote characters
QuotedAt(s, i, key) ==
    /\ CharAt(s, i) \in Quotes
    /\ LitAt(s, i + 1, key)
    /\ CharAt(s, i + 1 + Len(key)) \in Quotes

\* (?:t|i18n\.t|\$t|translate)\s*\(\s* QUOTE key QUOTE
StaticCall(s, key) ==
    \E o \in CallOpens(s) : QuotedAt(s, SkipSpace(s, o), key)

\* \[\s* QUOTE key QUOTE \s*\]
StaticIndex(s, key) ==
    \E i \in 1..Len(s) :
        /\ s[i] = "["
        /\ LET q == SkipSpace(s, i + 1)
           IN  /\ QuotedAt(s, q, key)
               /\ CharAt(s, SkipSpace(s, q + Len(key) + 2)) = "]"

\* \.key(?:\s|;|,|\)|\]|\}|\n|$)
StaticProperty(s, key) ==
    \E i \in 1..Len(s) :
        /\ s[i] = DOT
        /\ LitAt(s, i + 1, key)
        /\ LET n == i + 1 + Len(key)
           IN  n = Len(s) + 1 \/ CharAt(s, n) \in Whitespace \cup {";", ",", ")", "]", "}"}

\* QUOTE key QUOTE
StaticQuoted(s, key) == \E i \in 1..Len(s) : QuotedAt(s, i, key)

\* staticPats.some((pattern) => pattern.test(content))
StaticMatch(s, key) ==
    StaticCall(s, key) \/ StaticIndex(s, key) \/ StaticProperty(s, key) \/ StaticQuoted(s, key)

\* (?:...)\s*\(\s* BACKTICK [^BACKTICK]* partial [^BACKTICK]* \$\{[^}]+\} [^BACKTICK]* BACKTICK
TemplatePattern(s, partial) ==
    \E o \in CallOpens(s) :
        LET b == SkipSpace(s, o)
        IN  /\ CharAt(s, b) = BACKTICK
            /\ \E p \in (b + 1)..Len(s) :
                 /\ NoneOf(s, b + 1, p - 1, {BACKTICK})
                 /\ LitAt(s, p, partial)
                 /\ \E d \in (p + Len(partial))..Len(s) :
                      /\ NoneOf(s, p + Len(partial), d - 1, {BACKTICK})
                      /\ LitAt(s, d, <<"$", "{">>)
                      /\ \E e \in (d + 3)..Len(s) :
                           /\ s[e] = "}"
                           /\ NoneOf(s, d + 2, e - 1, {"}"})
                           /\ \E f \in (e + 1)..Len(s) : s[f] = BACKTICK

\* (?:...)\s*\(\s* QUOTE partial \.? QUOTE \s*\+
ConcatPattern(s, partial) ==
    \E o \in CallOpens(s) :
        LET q == SkipSpace(s, o)
            n == q + 1 + Len(partial)
        IN  /\ CharAt(s, q) \in Quotes
            /\ LitAt(s, q + 1, partial)
            /\ \/ CharAt(s, n) \in Quotes /\ CharAt(s, SkipSpace(s, n + 1)) = "+"
               \/ /\ CharAt(s, n) = DOT
                  /\ CharAt(s, n + 1) \in Quotes
                  /\ CharAt(s, SkipSpace(s, n + 2)) = "+"

\* (?:...)\s*\([^)]*\+\s* QUOTE \.? partial QUOTE
ReverseConcatPattern(s, partial) ==
    \E o \in CallOpens(s) :
        \E x \in o..Len(s) :
            /\ s[x] = "+"
            /\ NoneOf(s, o, x - 1, {")"})
            /\ LET q == SkipSpace(s, x + 1)
               IN  /\ CharAt(s, q) \in Quotes
                   /\ \/ QuotedAt(s, q, partial)
                      \/ QuotedAt(s, q, <<DOT>> \o partial)

PartialKeys_FullKeyOnly(path) == {path}

\* keyParts.slice(0, i + 1).join(DOT) for every i
PartialKeys(path) ==
    LET keyParts == SplitChar(path, DOT)
    IN  {Join(SubSeq(keyParts, 1, i), <<DOT>>) : i \in 1..Len(keyParts)}

\* dynPats.some((pattern) => pattern.test(content))
DynamicMatch(s, path) ==
    \E partial \in PartialKeys(path) :
        \/ TemplatePattern(s, partial)
        \/ ConcatPattern(s, partial)
        \/ ReverseConcatPattern(s, partial)

\* isParentKey(parentKey, childKey)
isParentKey(parentKey, childKey) ==
    /\ StartsWith(childKey, parentKey)
    /\ \/ Len(childKey) = Len(parentKey)
       \/ childKey[Len(parentKey) + 1] = DOT

----------------------------------------------------------------------------
(* findUnusedKeys and analyzeAndRemoveUnusedKeys *)

CANCEL_MESSAGE == "Operation cancelled by user"

isCancelled_Never(flag) == FALSE

\* CancellationToken.isCancelled()
isCancelled(flag) == flag

\* fileCount > 500 ? 30 : fileCount > 100 ? 25 : 20
DefaultConcurrency(fileCount) ==
    IF fileCount > 500 THEN 30 ELSE IF fileCount > 100 THEN 25 ELSE 20

\* providedConcurrency || defaultConcurrency
MaxConcurrency(provided, fileCount) ==
    IF provided # 0 THEN provided ELSE DefaultConcurrency(fileCount)

Min(a, b) == IF a < b THEN a ELSE b

\* for (let i = 0; i < files.length; i += maxConcurrency)
\*     batches.push(files.slice(i, i + maxConcurrency))
RECURSIVE BatchesFrom(_, _, _)
BatchesFrom(i, n, w) ==
    IF i < n
    THEN <<[k \in 1..(Min(i + w, n) - i) |-> i + k]>> \o BatchesFrom(i + w, n, w)
    ELSE <<>>

\* the body of the loop without the dynamic patterns
CheckKey_StaticOnly(content, allKeys, keyData, st) ==
    IF StaticMatch(content, keyData.path)
    THEN [st EXCEPT !.used = @ \cup {keyData.path},
                    !.stat = @ \cup {keyData.path}]
    ELSE st

\* the body of for (const keyData of keyBatch), for one key
CheckKey(content, allKeys, keyData, st) ==
    IF StaticMatch(content, keyData.path)
    THEN [st EXCEPT !.used = @ \cup {keyData.path},
                    !.stat = @ \cup {keyData.path}]
    ELSE IF DynamicMatch(content, keyData.path)
    THEN LET children == {allKeys[j].path : j \in
                            {x \in 1..Len(allKeys) :
                                isParentKey(keyData.path, allKeys[x].path)}}
         IN  [st EXCEPT !.used = @ \cup {keyData.path} \cup children,
                        !.dyn = @ \cup {keyData.path} \cup children]
    ELSE st

\* the loops over keysToCheck, from its entry i on
RECURSIVE CheckKeys(_, _, _, _, _)
CheckKeys(content, allKeys, keysToCheck, i, st) ==
    IF i > Len(keysToCheck) THEN st
    ELSE CheckKeys(content, allKeys, keysToCheck, i + 1,
                   CheckKey(content, allKeys, keysToCheck[i], st))

\* allKeys.filter((key) => !usedKeys.has(key.path))
NotUsed(allKeys, used) == SelectSeq(allKeys, LAMBDA k : k.path \notin used)

\* answer.toLowerCase()
LowerChar(c) ==
    CASE c = "Y" -> "y"
      [] c = "E" -> "e"
      [] c = "S" -> "s"
      [] c = "N" -> "n"
      [] c = "O" -> "o"
      [] OTHER   -> c

toLowerCase(a) == [i \in 1..Len(a) |-> LowerChar(a[i])]

Confirmed_UnlessNo(answer) ==
    toLowerCase(answer) \notin {<<"n">>, <<"n", "o">>}

\* answer.toLowerCase() === "y" || answer.toLowerCase() === "yes"
Confirmed(answer) ==
    toLowerCase(answer) = <<"y">> \/ toLowerCase(answer) = <<"y", "e", "s">>

\* removeKeyFromObject for every key of unusedKeys, in their order
RECURSIVE RemoveAll(_, _, _)
RemoveAll(obj, unused, i) ==
    IF i > Len(unused) THEN obj
    ELSE RemoveAll(removeKeyFromObject(obj, unused[i].originalPath), unused, i + 1)

\* ---- inputs ----

\* {"a":{"b":"x","c":"x"},"d":"x"}
KsTreeNested ==
    << ObjectEntry(KeyA, <<StringEntry(KeyB, "x"), StringEntry(KeyC, "x")>>),
       StringEntry(KeyD, "x") >>

\* {"a":"x"}
KsTreeFlat == << StringEntry(KeyA, "x") >>

\* {"a":"x","a.b":"x"}: the key a is a parent of the key a.b
KsTreeDotted == << StringEntry(KeyA, "x"), StringEntry(KeyDotted, "x") >>

KsDisks ==
    {[ok |-> TRUE, tree |-> t] :
        t \in {KsTreeNested, KsTreeFlat, KsTreeDotted, <<>>}}
        \cup {[ok |-> FALSE, tree |-> <<>>]}

\* t(BACKTICK a.${k} BACKTICK)
SrcTemplateA == <<"t", "(", BACKTICK, "a", ".", "$", "{", "k", "}", BACKTICK, ")">>

\* t(SQUOTE a.b SQUOTE)
SrcStaticAB == <<"t", "(", SQUOTE, "a", ".", "b", SQUOTE, ")">>

\* t(SQUOTE d SQUOTE);t(BACKTICK a${k} BACKTICK)
SrcStaticDTemplateA ==
    <<"t", "(", SQUOTE, "d", SQUOTE, ")", ";",
      "t", "(", BACKTICK, "a", "$", "{", "k", "}", BACKTICK, ")">>

\* t(SQUOTE a SQUOTE)
SrcStaticA == <<"t", "(", SQUOTE, "a", SQUOTE, ")">>

\* x
SrcNothing == <<"x">>

KsFileSamples ==
    {[content |-> c, readable |-> TRUE] :
        c \in {SrcTemplateA, SrcStaticAB, SrcStaticDTemplateA, SrcStaticA,
               SrcNothing}}
      \cup {[content |-> <<>>, readable |-> FALSE]}

KsAnswers == {<<"y">>, <<"Y", "E", "S">>, <<"n">>, <<>>, <<" ", "y">>}

Signals == {"manual", "SIGTERM", "SIGINT"}

KsEnded == {"done", "exit130", "exit1", "exit143"}

\* the observer of the setting of the flag, while the flag is not set
NotCancelled ==
    [when |-> "never", batch |-> 0, reading |-> {}, used |-> {}, processed |-> 0]

KsInit ==
    /\ globalCancelled = FALSE
    /\ ksTermTimer = FALSE
    /\ ksDisk \in KsDisks
    /\ ksTree = ksDisk
    /\ ksFiles \in SeqsOf(KsFileSamples, 0, MaxFiles)
    /\ ksProvided \in 0..MaxWidth
    /\ ksPc = "load"
    /\ ksFind = "running"
    /\ ksAllKeys = <<>>
    /\ ksBatches = <<>>
    /\ ksBatchNo = 0
    /\ ksWorker = [i \in 1..Len(ksFiles) |-> "new"]
    /\ usedKeys = {}
    /\ dynamicKeys = {}
    /\ ksStatic = {}
    /\ processedFiles = 0
    /\ ksUnused = <<>>
    /\ ksAnswer = <<>>
    /\ ksContent = <<>>
    /\ ksWrites = 0
    /\ ksCancelAt = NotCancelled

KsIdle ==
    /\ globalCancelled = FALSE
    /\ ksTermTimer = FALSE
    /\ ksDisk = [ok |-> FALSE, tree |-> <<>>]
    /\ ksTree = ksDisk
    /\ ksFiles = <<>>
    /\ ksProvided = 0
    /\ ksPc = "off"
    /\ ksFind = "running"
    /\ ksAllKeys = <<>>
    /\ ksBatches = <<>>
    /\ ksBatchNo = 0
    /\ ksWorker = <<>>
    /\ usedKeys = {}
    /\ dynamicKeys = {}
    /\ ksStatic = {}
    /\ processedFiles = 0
    /\ ksUnused = <<>>
    /\ ksAnswer = <<>>
    /\ ksContent = <<>>
    /\ ksWrites = 0
    /\ ksCancelAt = NotCancelled

\* findUnusedKeys throws the cancellation error; analyzeAndRemoveUnusedKeys
\* catches it and exits with 130
KsThrowCancelled ==
    /\ ksFind' = "cancelled"
    /\ ksPc' = "exit130"
    /\ UNCHANGED <<ksUnused, ksWorker, ksBatchNo>>

\* throwIfCancelled has passed: findUnusedKeys returns the unused keys, and
\* analyzeAndRemoveUnusedKeys returns at once when there is none
KsReturn ==
    LET unusedKeys == NotUsed(ksAllKeys, usedKeys)
    IN  /\ ksFind' = "returned"
        /\ ksUnused' = unusedKeys
        /\ ksPc' = IF Len(unusedKeys) = 0 THEN "done" ELSE "confirm"
        /\ UNCHANGED <<ksWorker, ksBatchNo>>

\* one pass through the head of for (const batch of batches), for batch j
\* (0-based) of the list bs, and what follows the loop when there is no batch j
KsLoopHead(bs, j) ==
    IF j < Len(bs)
    THEN IF isCancelled(globalCancelled)
         THEN KsThrowCancelled
         ELSE /\ ksWorker' = [i \in 1..Len(ksFiles) |->
                                 IF \E k \in 1..Len(bs[j + 1]) : bs[j + 1][k] = i
                                 THEN "reading" ELSE ksWorker[i]]
              /\ ksBatchNo' = j
              /\ ksPc' = "batch"
              /\ UNCHANGED <<ksFind, ksUnused>>
    ELSE IF isCancelled(globalCancelled) THEN KsThrowCancelled ELSE KsReturn

\* the translation file has been read: JSON.parse and flattenKeys
KsLoad ==
    /\ ksPc = "load"
    /\ IF ksDisk.ok
       THEN /\ ksAllKeys' = flattenKeys(ksDisk.tree)
            /\ ksPc' = "discover"
            /\ UNCHANGED ksFind
       ELSE /\ ksFind' = "failed"
            /\ ksPc' = "exit1"
            /\ UNCHANGED ksAllKeys
    /\ UNCHANGED <<globalCancelled, ksTermTimer, ksDisk, ksTree, ksFiles,
                   ksProvided, ksBatches, ksBatchNo, ksWorker, usedKeys,
                   dynamicKeys, ksStatic, processedFiles, ksUnused, ksAnswer,
                   ksContent, ksWrites, ksCancelAt>>

\* collectFiles has resolved: the batches are built and the loop is entered
KsDiscover ==
    /\ ksPc = "discover"
    /\ LET bs == BatchesFrom(0, Len(ksFiles),
                             MaxConcurrency(ksProvided, Len(ksFiles)))
       IN  /\ ksBatches' = bs
           /\ KsLoopHead(bs, 0)
    /\ UNCHANGED <<globalCancelled, ksTermTimer, ksDisk, ksTree, ksFiles,
                   ksProvided, ksAllKeys, usedKeys, dynamicKeys, ksStatic,
                   processedFiles, ksAnswer, ksContent, ksWrites, ksCancelAt>>

\* processFile without the checkpoint after the read
KsReadDone_NoCheckpoint(i) ==
    /\ ksPc = "batch"
    /\ i \in 1..Len(ksFiles)
    /\ ksWorker[i] = "reading"
    /\ ksWorker' = [ksWorker EXCEPT ![i] = "fulfilled"]
    /\ processedFiles' = processedFiles + 1
    /\ IF ksFiles[i].readable
       THEN LET st == CheckKeys(ksFiles[i].content, ksAllKeys,
                                NotUsed(ksAllKeys, usedKeys), 1,
                                [used |-> usedKeys, dyn |-> dynamicKeys,
                                 stat |-> ksStatic])
            IN  /\ usedKeys' = st.used
                /\ dynamicKeys' = st.dyn
                /\ ksStatic' = st.stat
       ELSE UNCHANGED <<usedKeys, dynamicKeys, ksStatic>>
    /\ UNCHANGED <<globalCancelled, ksTermTimer, ksDisk, ksTree, ksFiles,
                   ksProvided, ksPc, ksFind, ksAllKeys, ksBatches, ksBatchNo,
                   ksUnused, ksAnswer, ksContent, ksWrites, ksCancelAt>>

\* fs.readFile of file i has settled: the rest of processFile
KsReadDone(i) ==
    /\ ksPc = "batch"
    /\ i \in 1..Len(ksFiles)
    /\ ksWorker[i] = "reading"
    /\ IF ksFiles[i].readable /\ isCancelled(globalCancelled)
       THEN \* thrown after the read, rethrown by the catch
            /\ ksWorker' = [ksWorker EXCEPT ![i] = "rejected"]
            /\ UNCHANGED <<usedKeys, dynamicKeys, ksStatic, processedFiles>>
       ELSE /\ ksWorker' = [ksWorker EXCEPT ![i] = "fulfilled"]
            /\ processedFiles' = IF isCancelled(globalCancelled)
                                 THEN processedFiles ELSE processedFiles + 1
            /\ IF ksFiles[i].readable
               THEN LET st == CheckKeys(ksFiles[i].content, ksAllKeys,
                                        NotUsed(ksAllKeys, usedKeys), 1,
                                        [used |-> usedKeys, dyn |-> dynamicKeys,
                                         stat |-> ksStatic])
                    IN  /\ usedKeys' = st.used
                        /\ dynamicKeys' = st.dyn
                        /\ ksStatic' = st.stat
               ELSE UNCHANGED <<usedKeys, dynamicKeys, ksStatic>>
    /\ UNCHANGED <<globalCancelled, ksTermTimer, ksDisk, ksTree, ksFiles,
                   ksProvided, ksPc, ksFind, ksAllKeys, ksBatches, ksBatchNo,
                   ksUnused, ksAnswer, ksContent, ksWrites, ksCancelAt>>

\* the batch in flight is not awaited
KsAllSettled_NotAwaited ==
    /\ ksPc = "batch"
    /\ ksBatches[ksBatchNo + 1] # <<>>

\* every worker of the batch in flight has settled
KsAllSettled ==
    /\ ksPc = "batch"
    /\ \A k \in 1..Len(ksBatches[ksBatchNo + 1]) :
          ksWorker[ksBatches[ksBatchNo + 1][k]] \in {"fulfilled", "rejected"}

\* Promise.allSettled has resolved: the check after the batch, then the loop
KsBatchSettled ==
    /\ KsAllSettled
    /\ LET cancelled == \E k \in 1..Len(ksBatches[ksBatchNo + 1]) :
                           ksWorker[ksBatches[ksBatchNo + 1][k]] = "rejected"
       IN  IF cancelled \/ isCancelled(globalCancelled)
           THEN KsThrowCancelled
           ELSE KsLoopHead(ksBatches, ksBatchNo + 1)
    /\ UNCHANGED <<globalCancelled, ksTermTimer, ksDisk, ksTree, ksFiles,
                   ksProvided, ksAllKeys, ksBatches, usedKeys, dynamicKeys,
                   ksStatic, processedFiles, ksAnswer, ksContent, ksWrites,
                   ksCancelAt>>

\* the user answers the confirmation prompt
KsAnswer(answer) ==
    /\ ksPc = "confirm"
    /\ ksAnswer' = answer
    /\ ksPc' = IF Confirmed(answer) THEN "reread" ELSE "done"
    /\ UNCHANGED <<globalCancelled, ksTermTimer, ksDisk, ksTree, ksFiles,
                   ksProvided, ksFind, ksAllKeys, ksBatches, ksBatchNo,
                   ksWorker, usedKeys, dynamicKeys, ksStatic, processedFiles,
                   ksUnused, ksContent, ksWrites, ksCancelAt>>

\* the translation file is read and parsed again and the unused keys removed
KsReread ==
    /\ ksPc = "reread"
    /\ IF ksDisk.ok
       THEN /\ ksContent' = RemoveAll(ksDisk.tree, ksUnused, 1)
            /\ ksPc' = "write"
       ELSE /\ ksPc' = "exit1"
            /\ UNCHANGED ksContent
    /\ UNCHANGED <<globalCancelled, ksTermTimer, ksDisk, ksTree, ksFiles,
                   ksProvided, ksFind, ksAllKeys, ksBatches, ksBatchNo,
                   ksWorker, usedKeys, dynamicKeys, ksStatic, processedFiles,
                   ksUnused, ksAnswer, ksWrites, ksCancelAt>>

\* fs.writeFile(i18nFilePath, JSON.stringify(i18nContent))
KsWrite ==
    /\ ksPc = "write"
    /\ ksDisk' = [ok |-> TRUE, tree |-> ksContent]
    /\ ksWrites' = ksWrites + 1
    /\ ksPc' = "done"
    /\ UNCHANGED <<globalCancelled, ksTermTimer, ksTree, ksFiles, ksProvided,
                   ksFind, ksAllKeys, ksBatches, ksBatchNo, ksWorker, usedKeys,
                   dynamicKeys, ksStatic, processedFiles, ksUnused, ksAnswer,
                   ksContent, ksCancelAt>>

\* handleSignal: cancel() ("manual"), or the SIGINT / SIGTERM handler.  A
\* signal is handled between two callbacks, never between the settling of the
\* last worker and the continuation of Promise.allSettled.
KsSignal(signal) ==
    /\ ksPc \notin KsEnded
    /\ ~KsAllSettled
    /\ globalCancelled' = TRUE
    /\ ksCancelAt' =
          IF globalCancelled THEN ksCancelAt
          ELSE [when |-> IF ksPc \in {"load", "discover"} THEN "before"
                         ELSE IF ksPc = "batch" THEN "inflight" ELSE "after",
                batch |-> ksBatchNo,
                reading |-> {i \in 1..Len(ksFiles) : ksWorker[i] = "reading"},
                used |-> usedKeys,
                processed |-> processedFiles]
    /\ ksPc' = IF signal = "SIGINT" THEN "exit130" ELSE ksPc
    /\ ksTermTimer' = (ksTermTimer \/ signal = "SIGTERM")
    /\ UNCHANGED <<ksDisk, ksTree, ksFiles, ksProvided, ksFind, ksAllKeys,
                   ksBatches, ksBatchNo, ksWorker, usedKeys, dynamicKeys,
                   ksStatic, processedFiles, ksUnused, ksAnswer, ksContent,
                   ksWrites>>

\* the timer of the SIGTERM handler fires: process.exit(143)
KsTermExit ==
    /\ ksTermTimer
    /\ ksPc \notin KsEnded
    /\ ~KsAllSettled
    /\ ksPc' = "exit143"
    /\ UNCHANGED <<globalCancelled, ksTermTimer, ksDisk, ksTree, ksFiles,
                   ksProvided, ksFind, ksAllKeys, ksBatches, ksBatchNo,
                   ksWorker, usedKeys, dynamicKeys, ksStatic, processedFiles,
                   ksUnused, ksAnswer, ksContent, ksWrites, ksCancelAt>>

KsNext ==
    \/ KsLoad
    \/ KsDiscover
    \/ \E i \in 1..Len(ksFiles) : KsReadDone(i)
    \/ KsBatchSettled
    \/ \E answer \in KsAnswers : KsAnswer(answer)
    \/ KsReread
    \/ KsWrite
    \/ \E signal \in Signals : KsSignal(signal)
    \/ KsTermExit

----------------------------------------------------------------------------
(* Claims about flattenKeys and removeKeyFromObject *)

\* the key paths of the leaves of a tree (values that are not nested objects)
RECURSIVE LeafPaths(_)
LeafPaths(obj) ==
    UNION { IF IsNestedObject(obj[i])
            THEN {<<obj[i].key>> \o p : p \in LeafPaths(obj[i].kids)}
            ELSE {<<obj[i].key>>}
            : i \in 1..Len(obj) }

\* the entry a key path leads to
RECURSIVE EntryAt(_, _)
EntryAt(obj, path) ==
    IF Len(path) = 1 THEN EntryOf(obj, Head(path))
    ELSE EntryAt(EntryOf(obj, Head(path)).kids, Tail(path))

\* the positions, object by object, of the keys of a key path
RECURSIVE IndexPath(_, _)
IndexPath(obj, path) ==
    IF path = <<>> THEN <<>>
    ELSE LET i == CHOOSE k \in 1..Len(obj) : obj[k].key = Head(path)
         IN  <<i>> \o IndexPath(obj[i].kids, Tail(path))

\* p comes before q in a depth-first walk
RECURSIVE WalkedBefore(_, _)
WalkedBefore(p, q) ==
    /\ p # <<>>
    /\ q # <<>>
    /\ \/ Head(p) < Head(q)
       \/ Head(p) = Head(q) /\ WalkedBefore(Tail(p), Tail(q))

\* C8: flattenKeys returns exactly one entry for every leaf of the tree
\* (arrays and null are leaves) and no other entry, in depth-first key order,
\* each with its value and with path equal to its originalPath segments
\* joined by '.'.
C8_FlattenContract ==
    trPc \in {"flat", "removing"} =>
        /\ {trFlat[i].originalPath : i \in 1..Len(trFlat)} = LeafPaths(trTree)
        /\ Len(trFlat) = Cardinality(LeafPaths(trTree))
        /\ \A i \in 1..Len(trFlat) :
              LET e == EntryAt(trTree, trFlat[i].originalPath)
              IN  trFlat[i].value = [kind |-> e.kind, val |-> e.val]
        /\ \A i, j \in 1..Len(trFlat) :
              i < j => WalkedBefore(IndexPath(trTree, trFlat[i].originalPath),
                                    IndexPath(trTree, trFlat[j].originalPath))
        /\ \A i \in 1..Len(trFlat) :
              trFlat[i].path = Join(trFlat[i].originalPath, <<DOT>>)

\* the tree without the leaves at the key paths R, and without the objects
\* that lost all of their children
RECURSIVE Pruned(_, _, _)
Pruned(obj, at, R) ==
    IF obj = <<>> THEN <<>>
    ELSE LET e == Head(obj)
             p == Append(at, e.key)
             rest == Pruned(Tail(obj), at, R)
         IN  IF ~IsNestedObject(e)
             THEN (IF p \in R THEN rest ELSE <<e>> \o rest)
             ELSE IF e.kids = <<>> THEN <<e>> \o rest
             ELSE LET ks == Pruned(e.kids, p, R)
                  IN  IF ks = <<>> THEN rest
                      ELSE <<[e EXCEPT !.kids = ks]>> \o rest

\* the entries of flat whose index is not in gone, in the order of flat
RECURSIVE FlatWithout(_, _, _)
FlatWithout(flat, i, gone) ==
    IF i > Len(flat) THEN <<>>
    ELSE (IF i \in gone THEN <<>> ELSE <<flat[i]>>) \o FlatWithout(flat, i + 1, gone)

\* C7: after removeKeyFromObject was applied with the originalPath of each
\* key of a subset of flattenKeys(T), in any order, the tree is T without
\* those leaves and without the objects all of whose children were removed,
\* and flattening it gives the other entries of flattenKeys(T), in the same
\* order and with the same values.
C7_RemovalContract ==
    trPc = "removing" =>
        /\ trObj = Pruned(trTree, <<>>,
                          {trFlat[i].originalPath : i \in trRemoved})
        /\ flattenKeys(trObj) = FlatWithout(trFlat, 1, trRemoved)

C7_Witness ==
    /\ trPc = "removing"
    /\ trTree = ExampleTree
    /\ trRemoved = {1, 2}
    /\ trObj = <<StringEntry(KeyD, "z")>>

----------------------------------------------------------------------------
(* Claims about findUnusedKeys and analyzeAndRemoveUnusedKeys *)

RecognisedCalls ==
    { <<"t">>, <<"i", "1", "8", "n", ".", "t">>, <<"$", "t">>,
      <<"t", "r", "a", "n", "s", "l", "a", "t", "e">> }

\* the text has a recognised translation call whose argument is a template
\* literal made of P, possibly a dot, and one interpolation
HasTemplateCall(text, P) ==
    \E call \in RecognisedCalls, sep \in {<<>>, <<DOT>>} :
        Includes(text, call \o <<"(", BACKTICK>> \o P \o sep
                            \o <<"$", "{", "k", "}", BACKTICK, ")">>)

\* the prefixes of the dot-separated segments of the flattened keys
KeyPrefixes ==
    UNION { {Join(SubSeq(SplitChar(ksAllKeys[i].path, DOT), 1, n), <<DOT>>) :
                n \in 1..Len(SplitChar(ksAllKeys[i].path, DOT))}
            : i \in 1..Len(ksAllKeys) }

\* the flattened keys that a template call of a read file covers: the key is
\* P or a descendant of P
CoveredByTemplate ==
    { ksAllKeys[i].path : i \in
        { x \in 1..Len(ksAllKeys) :
            \E f \in 1..Len(ksFiles), P \in KeyPrefixes :
                /\ ksFiles[f].readable
                /\ HasTemplateCall(ksFiles[f].content, P)
                /\ \/ ksAllKeys[x].path = P
                   \/ StartsWith(ksAllKeys[x].path, P \o <<DOT>>) } }

UnusedPaths == {ksUnused[i].path : i \in 1..Len(ksUnused)}

\* C5 (as claimed): when findUnusedKeys returns, every flattened key that is
\* P or a descendant of P, for a template call on P in a read file, is in the
\* dynamically-used set and is absent from the returned unused list.
C5_CoveredKeysAreDynamic ==
    ksFind = "returned" =>
        \A k \in CoveredByTemplate : k \in dynamicKeys /\ k \notin UnusedPaths

\* C5 (amended): when findUnusedKeys returns, every such key is marked used
\* and is absent from the returned unused list; it is in the dynamically-used
\* set when no read file matches the key with a static pattern.
C5_CoveredKeysAreUsed ==
    ksFind = "returned" =>
        \A k \in CoveredByTemplate :
            /\ k \in usedKeys
            /\ k \notin UnusedPaths
            /\ (\A f \in 1..Len(ksFiles) :
                    ksFiles[f].readable => ~StaticMatch(ksFiles[f].content, k))
                  => k \in dynamicKeys

C5_Witness ==
    /\ ksFind = "returned"
    /\ ksTree.tree = KsTreeNested
    /\ <<"a", ".", "b">> \in CoveredByTemplate
    /\ <<"a", ".", "c">> \in CoveredByTemplate
    /\ <<"a", ".", "c">> \in dynamicKeys
    /\ <<"a", ".", "b">> \in usedKeys \ dynamicKeys
    /\ UnusedPaths = {<<"d">>}

\* C6: the translation file is written only in a run where it parsed, the
\* scan returned without cancellation or error, at least one unused key was
\* found and the answer was y or yes (in any letter case); in every other run
\* the file is left as it was.
C6_WriteOnlyWhenConfirmed ==
    /\ ksWrites > 0 =>
          /\ ksTree.ok
          /\ ksFind = "returned"
          /\ Len(ksUnused) >= 1
          /\ toLowerCase(ksAnswer) \in {<<"y">>, <<"y", "e", "s">>}
    /\ ksWrites = 0 => ksDisk = ksTree
    /\ ksWrites <= 1

C6_Witness ==
    /\ ksPc = "done"
    /\ ksWrites = 1
    /\ ksAnswer = <<"Y", "E", "S">>
    /\ ksDisk # ksTree

\* the workers of batch j (0-based)
WorkersOf(j) == {ksBatches[j + 1][k] : k \in 1..Len(ksBatches[j + 1])}

Settled == {"fulfilled", "rejected"}

----------------------------------------------------------------------------
(* whatCase, analyzeFileName, analyzeFile *)

Lower ==
    {"a", "b", "c", "d", "e", "f", "g", "h", "i", "j", "k", "l", "m",
     "n", "o", "p", "q", "r", "s", "t", "u", "v", "w", "x", "y", "z"}

Upper ==
    {"A", "B", "C", "D", "E", "F", "G", "H", "I", "J", "K", "L", "M",
     "N", "O", "P", "Q", "R", "S", "T", "U", "V", "W", "X", "Y", "Z"}

Digit == {"0", "1", "2", "3", "4", "5", "6", "7", "8", "9"}

\* the patterns of NamingCases in declaration order: the class of the first
\* character and the class of the characters after it
NamingCasesArray ==
    << [type |-> "CamelCase",    first |-> Lower, rest |-> Lower \cup Upper \cup Digit],
       [type |-> "PascalCase",   first |-> Upper, rest |-> Lower \cup Upper \cup Digit],
       [type |-> "SnakeCase",    first |-> Lower, rest |-> Lower \cup Digit \cup {"_"}],
       [type |-> "UpperCase",    first |-> Upper, rest |-> Upper \cup Digit],
       [type |-> "LowerCase",    first |-> Lower, rest |-> Lower \cup Digit],
       [type |-> "KebabCase",    first |-> Lower, rest |-> Lower \cup Digit \cup {"-"}],
       [type |-> "StartCase",    first |-> Upper, rest |-> Lower \cup Digit \cup {" "}],
       [type |-> "DotCase",      first |-> Lower, rest |-> Lower \cup Digit \cup {"."}],
       [type |-> "PathCase",     first |-> Lower, rest |-> Lower \cup Digit \cup {"/"}],
       [type |-> "SpaceCase",    first |-> Lower, rest |-> Lower \cup Digit \cup {" "}],
       [type |-> "NoCase",       first |-> Lower, rest |-> Lower \cup Digit],
       [type |-> "ConstantCase", first |-> Upper, rest |-> Upper \cup Digit \cup {"_"}],
       [type |-> "SentenceCase", first |-> Upper, rest |-> Lower \cup Digit \cup {" "}],
       [type |-> "Unknown",      first |-> {},    rest |-> {}] >>

\* regexp.test(str): the last pattern is ^.*$ (no line terminator in str), the
\* others are one character of first, then characters of rest
RegexpTest(entry, str) ==
    IF entry.type = "Unknown"
    THEN \A i \in 1..Len(str) : str[i] \notin {NL, "\r"}
    ELSE /\ str # <<>>
         /\ str[1] \in entry.first
         /\ \A i \in 2..Len(str) : str[i] \in entry.rest

\* the type of the last entry that matches, not of the first
whatCase_LastMatch(str) ==
    LET hits == {i \in 1..Len(NamingCasesArray) : RegexpTest(NamingCasesArray[i], str)}
    IN  IF hits = {} THEN "Unknown"
        ELSE NamingCasesArray[CHOOSE i \in hits : \A j \in hits : i >= j].type

\* NamingCasesArray.find(({ regexp }) => regexp.test(str))?.type || Unknown
whatCase(str) ==
    LET hits == {i \in 1..Len(NamingCasesArray) : RegexpTest(NamingCasesArray[i], str)}
    IN  IF hits = {} THEN "Unknown"
        ELSE NamingCasesArray[CHOOSE i \in hits : \A j \in hits : i <= j].type

\* the largest index of character c in s, 0 when there is none
LastIndexOf(s, c) ==
    IF \E i \in 1..Len(s) : s[i] = c
    THEN CHOOSE i \in 1..Len(s) : s[i] = c /\ \A j \in (i + 1)..Len(s) : s[j] # c
    ELSE 0

\* path.basename of a path that does not end with a slash
Basename(p) == SubSeq(p, LastIndexOf(p, "/") + 1, Len(p))

\* path.extname of a base name: from the last dot on; empty when there is no
\* dot, when the only dot is the first character, and for the name of two dots
Extname(name) ==
    LET d == LastIndexOf(name, ".")
    IN  IF d = 0 \/ d = 1 THEN <<>>
        ELSE IF name[1] = "." /\ d = 2 /\ Len(name) = 2 THEN <<>>
        ELSE SubSeq(name, d, Len(name))

\* str.split(sep)[0]: with the empty separator the string is split into its
\* characters, otherwise the piece before the first occurrence of sep
SplitFirst(str, sep) ==
    IF sep = <<>> THEN SubSeq(str, 1, 1)
    ELSE IF Includes(str, sep)
    THEN LET i == CHOOSE k \in 1..Len(str) :
                      /\ LitAt(str, k, sep)
                      /\ \A j \in 1..(k - 1) : ~LitAt(str, j, sep)
         IN  SubSeq(str, 1, i - 1)
    ELSE str

\* analyzeFileName(filePath)
analyzeFileName(filePath) ==
    LET fileName == Basename(filePath)
        fileNameWithoutExtension == SplitFirst(fileName, Extname(fileName))
    IN  whatCase(fileNameWithoutExtension)

\* analyzeFile(filePath, output) on file f: the naming case and the output
\* after the call, or thrown when readFileSync fails (output is then untouched)
analyzeFile(f, out) ==
    IF f.readable
    THEN [thrown |-> FALSE,
          fileNameCase |-> analyzeFileName(Basename(f.path)),
          output |-> analyzeLineCountByCategory(f.content, out)]
    ELSE [thrown |-> TRUE, fileNameCase |-> "", output |-> out]

\* fileNameCases[fileNameCase] += 1, or = 1 when it is undefined
CountCase(cases, fileNameCase) ==
    IF fileNameCase \in DOMAIN cases
    THEN [cases EXCEPT ![fileNameCase] = @ + 1]
    ELSE cases @@ (fileNameCase :> 1)

\* processFile(filePath, output, fileNameCases) on file f
processFile(f, out, cases) ==
    LET r == analyzeFile(f, out)
    IN  IF r.thrown
        THEN [thrown |-> TRUE, output |-> out, cases |-> cases]
        ELSE [thrown |-> FALSE, output |-> r.output,
              cases |-> CountCase(cases, r.fileNameCase)]

----------------------------------------------------------------------------
(* analyzeCodebase *)

\* fileNameCases = {}
NoCases == [c \in {} |-> 0]

\* "/s/a.ts", holding "// a"
CbFileCamel ==
    [path |-> <<"/", "s", "/", "a", ".", "t", "s">>,
     content |-> <<"/", "/", " ", "a">>, readable |-> TRUE]

\* "/s/My.ts", holding "x" and an empty line
CbFilePascal ==
    [path |-> <<"/", "s", "/", "M", "y", ".", "t", "s">>,
     content |-> <<"x", NL>>, readable |-> TRUE]

\* "/s/my_f", a name without extension, holding a block comment of two lines
CbFileNoExt ==
    [path |-> <<"/", "s", "/", "m", "y", "_", "f">>,
     content |-> <<"/", "*", " ", "a", NL, " ", "b", " ", "*", "/">>,
     readable |-> TRUE]

\* "/s/A_B.ts", which readFileSync cannot read
CbFileUnreadable ==
    [path |-> <<"/", "s", "/", "A", "_", "B", ".", "t", "s">>,
     content |-> <<>>, readable |-> FALSE]

CbFileSamples == {CbFileCamel, CbFilePascal, CbFileNoExt, CbFileUnreadable}

CbEnded == {"done", "failed", "exit130", "exit143"}

NotLogged == [called |-> FALSE, fileCount |-> 0, output |-> ZeroOutput, cases |-> NoCases]

\* fileCount > 500 ? 30 : fileCount > 100 ? 25 : 20
CbDefaultConcurrency(fileCount) ==
    IF fileCount > 500 THEN 30 ELSE IF fileCount > 100 THEN 25 ELSE 20

\* options.maxConcurrency || defaultConcurrency
CbMaxConcurrency(provided, fileCount) ==
    IF provided # 0 THEN provided ELSE CbDefaultConcurrency(fileCount)

\* for (let i = 0; i < files.length; i += maxConcurrency)
\*     chunks.push(files.slice(i, i + maxConcurrency))
RECURSIVE ChunksFrom(_, _, _)
ChunksFrom(i, n, w) ==
    IF i < n
    THEN <<[k \in 1..((IF i + w < n THEN i + w ELSE n) - i) |-> i + k]>>
             \o ChunksFrom(i + w, n, w)
    ELSE <<>>

\* a fresh process enters analyzeCodebase
CbFresh ==
    /\ cbPc' = "discover"
    /\ cbCancelled' = FALSE
    /\ cbTermTimer' = FALSE
    /\ cbChunks' = <<>>
    /\ cbChunkNo' = 0
    /\ cbWorker' = [i \in 1..Len(cbFiles) |-> "new"]
    /\ cbIndex' = 0
    /\ cbOutput' = ZeroOutput
    /\ cbCases' = NoCases
    /\ cbLogged' = NotLogged

CbInit ==
    /\ cbFiles \in SeqsOf(CbFileSamples, 0, MaxFiles)
    /\ cbOpts \in [checkFileNames : BOOLEAN, checkFileContent : BOOLEAN]
    /\ cbWidths \in [1..2 -> 0..MaxWidth]
    /\ cbRun = 1
    /\ cbPc = "discover"
    /\ cbCancelled = FALSE
    /\ cbTermTimer = FALSE
    /\ cbChunks = <<>>
    /\ cbChunkNo = 0
    /\ cbWorker = [i \in 1..Len(cbFiles) |-> "new"]
    /\ cbIndex = 0
    /\ cbOutput = ZeroOutput
    /\ cbCases = NoCases
    /\ cbLogged = NotLogged
    /\ cbFirst = [pc |-> "none", logged |-> NotLogged]

CbIdle ==
    /\ cbFiles = <<>>
    /\ cbOpts = [checkFileNames |-> FALSE, checkFileContent |-> FALSE]
    /\ cbWidths = [r \in 1..2 |-> 0]
    /\ cbRun = 0
    /\ cbPc = "off"
    /\ cbCancelled = FALSE
    /\ cbTermTimer = FALSE
    /\ cbChunks = <<>>
    /\ cbChunkNo = 0
    /\ cbWorker = <<>>
    /\ cbIndex = 0
    /\ cbOutput = ZeroOutput
    /\ cbCases = NoCases
    /\ cbLogged = NotLogged
    /\ cbFirst = [pc |-> "none", logged |-> NotLogged]

\* the cancellation error reaches the catch of analyzeCodebase: exit(130)
CbThrowCancelled ==
    /\ cbPc' = "exit130"
    /\ UNCHANGED <<cbChunkNo, cbLogged>>

\* after the loops: the last check of the flag, then logOutput is called
CbAfterLoops(out, cases) ==
    IF isCancelled(cbCancelled)
    THEN CbThrowCancelled
    ELSE /\ cbLogged' = [called |-> TRUE, fileCount |-> Len(cbFiles),
                         output |-> out, cases |-> cases]
         /\ cbPc' = "log"
         /\ UNCHANGED cbChunkNo

\* the head of for (const chunk of chunks) for chunk j (0-based) of the list
\* cs, and what follows the loop when there is no chunk j
CbLoopHead(cs, j) ==
    IF j < Len(cs)
    THEN IF isCancelled(cbCancelled)
         THEN CbThrowCancelled
         ELSE /\ cbChunkNo' = j
              /\ cbPc' = "chunk"
              /\ UNCHANGED cbLogged
    ELSE CbAfterLoops(cbOutput, cbCases)

\* collectFiles has resolved: no file is logged at once, otherwise the width
\* is chosen and the parallel or the sequential loop is entered
CbDiscover ==
    /\ cbPc = "discover"
    /\ LET fileCount == Len(cbFiles)
           maxConcurrency == CbMaxConcurrency(cbWidths[cbRun], fileCount)
       IN  IF fileCount = 0
           THEN /\ cbLogged' = [called |-> TRUE, fileCount |-> 0,
                                output |-> cbOutput, cases |-> NoCases]
                /\ cbPc' = "log"
                /\ UNCHANGED <<cbChunks, cbChunkNo>>
           ELSE IF maxConcurrency > 1
           THEN /\ cbChunks' = ChunksFrom(0, fileCount, maxConcurrency)
                /\ CbLoopHead(ChunksFrom(0, fileCount, maxConcurrency), 0)
           ELSE /\ cbPc' = "seq"
                /\ UNCHANGED <<cbChunks, cbChunkNo, cbLogged>>
    /\ UNCHANGED <<cbFiles, cbOpts, cbWidths, cbRun, cbCancelled, cbTermTimer,
                   cbWorker, cbIndex, cbOutput, cbCases, cbFirst>>

\* the workers of the chunk being processed that have not run yet
CbPending ==
    {k \in 1..Len(cbChunks[cbChunkNo + 1]) :
        cbWorker[cbChunks[cbChunkNo + 1][k]] = "new"}

\* chunk.map calls the next worker, which runs to its end: the check of the
\* flag, processFile under the toggles, and the promise it leaves behind
CbWorkerRun ==
    /\ cbPc = "chunk"
    /\ CbPending # {}
    /\ LET k == CHOOSE x \in CbPending : \A y \in CbPending : x <= y
           i == cbChunks[cbChunkNo + 1][k]
           r == processFile(cbFiles[i], cbOutput, cbCases)
       IN  IF isCancelled(cbCancelled)
           THEN /\ cbWorker' = [cbWorker EXCEPT ![i] = "cancelled"]
                /\ UNCHANGED <<cbOutput, cbCases>>
           ELSE IF cbOpts.checkFileNames \/ cbOpts.checkFileContent
           THEN /\ cbWorker' = [cbWorker EXCEPT ![i] =
                                   IF r.thrown THEN "rejected" ELSE "fulfilled"]
                /\ cbOutput' = r.output
                /\ cbCases' = r.cases
           ELSE /\ cbWorker' = [cbWorker EXCEPT ![i] = "fulfilled"]
                /\ UNCHANGED <<cbOutput, cbCases>>
    /\ UNCHANGED <<cbFiles, cbOpts, cbWidths, cbRun, cbPc, cbCancelled,
                   cbTermTimer, cbChunks, cbChunkNo, cbIndex, cbLogged, cbFirst>>

\* Promise.allSettled has resolved: the check after the chunk, then the loop
CbChunkSettled ==
    /\ cbPc = "chunk"
    /\ CbPending = {}
    /\ LET cancelled == \E k \in 1..Len(cbChunks[cbChunkNo + 1]) :
                           cbWorker[cbChunks[cbChunkNo + 1][k]] = "cancelled"
       IN  IF cancelled \/ isCancelled(cbCancelled)
           THEN CbThrowCancelled
           ELSE CbLoopHead(cbChunks, cbChunkNo + 1)
    /\ UNCHANGED <<cbFiles, cbOpts, cbWidths, cbRun, cbCancelled, cbTermTimer,
                   cbChunks, cbWorker, cbIndex, cbOutput, cbCases, cbFirst>>

\* one iteration of for (const filePath of files) of the sequential branch;
\* an error of processFile reaches the catch and is thrown again
CbSeqStep ==
    /\ cbPc = "seq"
    /\ cbIndex < Len(cbFiles)
    /\ LET i == cbIndex + 1
           r == processFile(cbFiles[i], cbOutput, cbCases)
           run == cbOpts.checkFileNames \/ cbOpts.checkFileContent
           out == IF run THEN r.output ELSE cbOutput
           cases == IF run THEN r.cases ELSE cbCases
       IN  IF isCancelled(cbCancelled)
           THEN /\ CbThrowCancelled
                /\ UNCHANGED <<cbWorker, cbIndex, cbOutput, cbCases>>
           ELSE IF run /\ r.thrown
           THEN /\ cbWorker' = [cbWorker EXCEPT ![i] = "rejected"]
                /\ cbPc' = "failed"
                /\ UNCHANGED <<cbIndex, cbOutput, cbCases, cbChunkNo, cbLogged>>
           ELSE /\ cbWorker' = [cbWorker EXCEPT ![i] = "fulfilled"]
                /\ cbIndex' = i
                /\ cbOutput' = out
                /\ cbCases' = cases
                /\ IF i < Len(cbFiles)
                   THEN UNCHANGED <<cbPc, cbChunkNo, cbLogged>>
                   ELSE CbAfterLoops(out, cases)
    /\ UNCHANGED <<cbFiles, cbOpts, cbWidths, cbRun, cbCancelled, cbTermTimer,
                   cbChunks, cbFirst>>

\* logOutput has resolved and analyzeCodebase returns
CbLogDone ==
    /\ cbPc = "log"
    /\ cbPc' = "done"
    /\ UNCHANGED <<cbFiles, cbOpts, cbWidths, cbRun, cbCancelled, cbTermTimer,
                   cbChunks, cbChunkNo, cbWorker, cbIndex, cbOutput, cbCases,
                   cbLogged, cbFirst>>

\* handleSignal: cancel() ("manual"), or the SIGINT / SIGTERM handler.  A
\* signal is handled only while analyzeCodebase waits for collectFiles or for
\* logOutput: the loops yield to no other callback.
CbSignal(signal) ==
    /\ cbPc \in {"discover", "log"}
    /\ cbCancelled' = TRUE
    /\ cbPc' = IF signal = "SIGINT" THEN "exit130" ELSE cbPc
    /\ cbTermTimer' = (cbTermTimer \/ signal = "SIGTERM")
    /\ UNCHANGED <<cbFiles, cbOpts, cbWidths, cbRun, cbChunks, cbChunkNo,
                   cbWorker, cbIndex, cbOutput, cbCases, cbLogged, cbFirst>>

\* the timer of the SIGTERM handler fires: process.exit(143)
CbTermExit ==
    /\ cbTermTimer
    /\ cbPc \in {"discover", "log"}
    /\ cbPc' = "exit143"
    /\ UNCHANGED <<cbFiles, cbOpts, cbWidths, cbRun, cbCancelled, cbTermTimer,
                   cbChunks, cbChunkNo, cbWorker, cbIndex, cbOutput, cbCases,
                   cbLogged, cbFirst>>

\* the first run has ended: the second run starts in a fresh process, over
\* the same files and options, with its own width
CbSecondRun ==
    /\ cbRun = 1
    /\ cbPc \in CbEnded
    /\ cbFirst' = [pc |-> cbPc, logged |-> cbLogged]
    /\ cbRun' = 2
    /\ CbFresh
    /\ UNCHANGED <<cbFiles, cbOpts, cbWidths>>

CbNext ==
    \/ CbDiscover
    \/ CbWorkerRun
    \/ CbChunkSettled
    \/ CbSeqStep
    \/ CbLogDone
    \/ \E signal \in Signals : CbSignal(signal)
    \/ CbTermExit
    \/ CbSecondRun

----------------------------------------------------------------------------
(* Claims about analyzeCodebase *)

\* C10: two runs of analyzeCodebase over the same files, each with a width of
\* at least 1 and neither cancelled, hand the same ContentCounters and the
\* same naming-case buckets to logOutput.
C10_RunsAgree ==
    ( /\ cbRun = 2
      /\ cbWidths[1] >= 1 /\ cbWidths[2] >= 1
      /\ cbFirst.pc \in {"done", "failed"}
      /\ cbPc \in {"done", "failed"} ) =>
        /\ cbLogged.called = cbFirst.logged.called
        /\ cbLogged.output = cbFirst.logged.output
        /\ cbLogged.cases = cbFirst.logged.cases

----------------------------------------------------------------------------
(* The config file: findConfigFile, loadConfig, createConfigFile *)

CONFIG_FILE_NAME == ".analyze-codebase.json"

BACKSLASH == "\\"

\* the characters of a JSON string literal for the character c
EscapeChar(c) ==
    IF c = DQUOTE THEN <<BACKSLASH, DQUOTE>>
    ELSE IF c = BACKSLASH THEN <<BACKSLASH, BACKSLASH>>
    ELSE IF c = NL THEN <<BACKSLASH, "n">>
    ELSE <<c>>

RECURSIVE EscapeAll(_)
EscapeAll(str) ==
    IF str = <<>> THEN <<>> ELSE EscapeChar(Head(str)) \o EscapeAll(Tail(str))

\* JSON.stringify of a string
QuoteString(str) == <<DQUOTE>> \o EscapeAll(str) \o <<DQUOTE>>

Indent(n) == [i \in 1..n |-> " "]

\* JSON.stringify(list, null, 2) of an array of strings, one level deep
RECURSIVE ListItems(_, _)
ListItems(list, i) ==
    IF i > Len(list) THEN <<>>
    ELSE <<NL>> \o Indent(4) \o QuoteString(list[i])
           \o (IF i < Len(list) THEN <<",">> ELSE <<>>) \o ListItems(list, i + 1)

StringifyValue(field) ==
    IF field.kind = "bool"
    THEN (IF field.bool THEN <<"t", "r", "u", "e">> ELSE <<"f", "a", "l", "s", "e">>)
    ELSE IF field.list = <<>> THEN <<"[", "]">>
    ELSE <<"[">> \o ListItems(field.list, 1) \o <<NL>> \o Indent(2) \o <<"]">>

RECURSIVE FieldItems(_, _)
FieldItems(config, i) ==
    IF i > Len(config) THEN <<>>
    ELSE <<NL>> \o Indent(2) \o QuoteString(config[i].key) \o <<":", " ">>
           \o StringifyValue(config[i])
           \o (IF i < Len(config) THEN <<",">> ELSE <<>>) \o FieldItems(config, i + 1)

\* JSON.stringify(config, null, 2) + "\n"
StringifyConfig(config) ==
    (IF config = <<>> THEN <<"{", "}">>
     ELSE <<"{">> \o FieldItems(config, 1) \o <<NL, "}">>) \o <<NL>>

ParseFail == [ok |-> FALSE, val |-> <<>>, pos |-> 0]

\* the characters of a string literal from position i on, up to the closing
\* quote; acc holds the characters decoded so far
RECURSIVE ParseChars(_, _, _)
ParseChars(s, i, acc) ==
    IF i > Len(s) \/ s[i] = NL THEN ParseFail
    ELSE IF s[i] = DQUOTE THEN [ok |-> TRUE, val |-> acc, pos |-> i + 1]
    ELSE IF s[i] = BACKSLASH
    THEN IF CharAt(s, i + 1) \in {DQUOTE, BACKSLASH, "/"}
         THEN ParseChars(s, i + 2, Append(acc, s[i + 1]))
         ELSE IF CharAt(s, i + 1) = "n"
         THEN ParseChars(s, i + 2, Append(acc, NL))
         ELSE ParseFail
    ELSE ParseChars(s, i + 1, Append(acc, s[i]))

\* a string literal at position i
ParseString(s, i) ==
    IF CharAt(s, i) = DQUOTE THEN ParseChars(s, i + 1, <<>>) ELSE ParseFail

\* the elements of an array from position i on (after the bracket or a comma)
RECURSIVE ParseElements(_, _, _)
ParseElements(s, i, acc) ==
    LET e == ParseString(s, SkipSpace(s, i))
    IN  IF ~e.ok THEN ParseFail
        ELSE LET n == SkipSpace(s, e.pos)
             IN  IF CharAt(s, n) = ","
                 THEN ParseElements(s, n + 1, Append(acc, e.val))
                 ELSE IF CharAt(s, n) = "]"
                 THEN [ok |-> TRUE, val |-> Append(acc, e.val), pos |-> n + 1]
                 ELSE ParseFail

\* a value at position i: true, false or an array of strings
ParseValue(s, i) ==
    IF LitAt(s, i, <<"t", "r", "u", "e">>)
    THEN [ok |-> TRUE, val |-> [kind |-> "bool", bool |-> TRUE, list |-> <<>>], pos |-> i + 4]
    ELSE IF LitAt(s, i, <<"f", "a", "l", "s", "e">>)
    THEN [ok |-> TRUE, val |-> [kind |-> "bool", bool |-> FALSE, list |-> <<>>], pos |-> i + 5]
    ELSE IF CharAt(s, i) = "["
    THEN IF CharAt(s, SkipSpace(s, i + 1)) = "]"
         THEN [ok |-> TRUE, val |-> [kind |-> "list", bool |-> FALSE, list |-> <<>>],
               pos |-> SkipSpace(s, i + 1) + 1]
         ELSE LET l == ParseElements(s, i + 1, <<>>)
              IN  IF l.ok
                  THEN [ok |-> TRUE,
                        val |-> [kind |-> "list", bool |-> FALSE, list |-> l.val],
                        pos |-> l.pos]
                  ELSE ParseFail
    ELSE ParseFail

\* the members of an object from position i on (after the brace or a comma)
RECURSIVE ParseMembers(_, _, _)
ParseMembers(s, i, acc) ==
    LET k == ParseString(s, SkipSpace(s, i))
    IN  IF ~k.ok \/ CharAt(s, SkipSpace(s, k.pos)) # ":" THEN ParseFail
        ELSE LET v == ParseValue(s, SkipSpace(s, SkipSpace(s, k.pos) + 1))
             IN  IF ~v.ok THEN ParseFail
                 ELSE LET n == SkipSpace(s, v.pos)
                          field == [key |-> k.val, kind |-> v.val.kind,
                                    bool |-> v.val.bool, list |-> v.val.list]
                      IN  IF CharAt(s, n) = ","
                          THEN ParseMembers(s, n + 1, Append(acc, field))
                          ELSE IF CharAt(s, n) = "}"
                          THEN [ok |-> TRUE, val |-> Append(acc, field), pos |-> n + 1]
                          ELSE ParseFail

\* JSON.parse(configContent): an object, with nothing but white space around it
ParseConfig(text) ==
    LET i == SkipSpace(text, 1)
        r == IF CharAt(text, i) # "{" THEN ParseFail
             ELSE IF CharAt(text, SkipSpace(text, i + 1)) = "}"
             THEN [ok |-> TRUE, val |-> <<>>, pos |-> SkipSpace(text, i + 1) + 1]
             ELSE ParseMembers(text, i + 1, <<>>)
    IN  IF r.ok /\ SkipSpace(text, r.pos) = Len(text) + 1
        THEN [ok |-> TRUE, val |-> r.val]
        ELSE [ok |-> FALSE, val |-> <<>>]

\* a field of IConfigFile holding a list of strings, or a boolean
ListField(k, l) == [key |-> k, kind |-> "list", bool |-> FALSE, list |-> l]
BoolField(k, b) == [key |-> k, kind |-> "bool", bool |-> b, list |-> <<>>]

KeyExtensions == <<"e", "x", "t", "e", "n", "s", "i", "o", "n", "s">>
KeyExclude == <<"e", "x", "c", "l", "u", "d", "e">>
KeyCheckFileNames == <<"c", "h", "e", "c", "k", "F", "i", "l", "e", "N", "a", "m", "e", "s">>

ExtTs == <<".", "t", "s">>
ExtTsx == <<".", "t", "s", "x">>

\* the configs handed to createConfigFile; one exclude entry holds a quote, a
\* backslash and a space
Configs ==
    { <<>>,
      <<ListField(KeyExtensions, <<ExtTs>>)>>,
      <<ListField(KeyExtensions, <<ExtTs, ExtTsx>>),
        ListField(KeyExclude, <<<<"n", "m">>>>),
        BoolField(KeyCheckFileNames, TRUE)>>,
      <<ListField(KeyExtensions, <<>>),
        ListField(KeyExclude, <<<<"a", DQUOTE, BACKSLASH, " ", "b">>, <<>>>>),
        BoolField(KeyCheckFileNames, FALSE)>> }

\* what the config files found at the start hold: a config, or no JSON at all
OtherText == StringifyConfig(<<ListField(KeyExtensions, <<<<".", "j", "s">>>>)>>)
GarbageText == <<"{", "x">>

\* the directories: the file system root <<>> and the chain below it
Dirs == {[i \in 1..n |-> "u"] : n \in 0..MaxDepth}

\* path.dirname of a directory: the root is its own parent
Dirname(dir) == IF dir = <<>> THEN <<>> ELSE SubSeq(dir, 1, Len(dir) - 1)

\* path.join(dir, CONFIG_FILE_NAME)
ConfigPathIn(dir) == Append(dir, CONFIG_FILE_NAME)

NoFile == [exists |-> FALSE, text |-> <<>>]

NoResult == [isNull |-> TRUE, path |-> <<>>]

NotLoaded == [isNull |-> TRUE, config |-> <<>>]

NotCreated == [done |-> FALSE, dir |-> <<>>, config |-> <<>>, path |-> <<>>]

CfInit ==
    /\ cfFs \in [Dirs -> {NoFile, [exists |-> TRUE, text |-> OtherText],
                                  [exists |-> TRUE, text |-> GarbageText]}]
    /\ cfPc = "idle"
    /\ cfCaller = "none"
    /\ cfDir = <<>>
    /\ cfCur = <<>>
    /\ cfResult = NoResult
    /\ cfLoaded = NotLoaded
    /\ cfCreated = NotCreated

CfIdle ==
    /\ cfFs = [d \in {<<>>} |-> NoFile]
    /\ cfPc = "off"
    /\ cfCaller = "none"
    /\ cfDir = <<>>
    /\ cfCur = <<>>
    /\ cfResult = NoResult
    /\ cfLoaded = NotLoaded
    /\ cfCreated = NotCreated

\* createConfigFile(directory, config)
CfCreate(directory, config) ==
    /\ cfPc = "idle"
    /\ ~cfCreated.done
    /\ cfFs' = [cfFs EXCEPT ![directory] =
                   [exists |-> TRUE, text |-> StringifyConfig(config)]]
    /\ cfCreated' = [done |-> TRUE, dir |-> directory, config |-> config,
                     path |-> ConfigPathIn(directory)]
    /\ UNCHANGED <<cfPc, cfCaller, cfDir, cfCur, cfResult, cfLoaded>>

\* findConfigFile(directory) is entered, by itself or from loadConfig
CfStart(directory, caller) ==
    /\ cfPc = "idle"
    /\ cfPc' = "search"
    /\ cfCaller' = caller
    /\ cfDir' = directory
    /\ cfCur' = directory
    /\ UNCHANGED <<cfFs, cfResult, cfLoaded, cfCreated>>

\* findConfigFile returns r; loadConfig returns null at once when r is null
CfReturn(r) ==
    /\ cfResult' = r
    /\ cfPc' = IF cfCaller = "load" /\ ~r.isNull THEN "read" ELSE "done"
    /\ UNCHANGED cfCur

\* the test of the while loop and, when it passes, one iteration
CfSearchStep ==
    /\ cfPc = "search"
    /\ IF cfCur # Dirname(cfCur)
       THEN IF cfFs[cfCur].exists
            THEN CfReturn([isNull |-> FALSE, path |-> ConfigPathIn(cfCur)])
            ELSE /\ cfCur' = Dirname(cfCur)
                 /\ UNCHANGED <<cfPc, cfResult>>
       ELSE CfReturn(NoResult)
    /\ UNCHANGED <<cfFs, cfCaller, cfDir, cfLoaded, cfCreated>>

\* loadConfig reads and parses the file found; null when that fails
CfRead ==
    /\ cfPc = "read"
    /\ LET file == cfFs[Dirname(cfResult.path)]
           parsed == ParseConfig(file.text)
       IN  cfLoaded' = IF file.exists /\ parsed.ok
                       THEN [isNull |-> FALSE, config |-> parsed.val]
                       ELSE NotLoaded
    /\ cfPc' = "done"
    /\ UNCHANGED <<cfFs, cfCaller, cfDir, cfCur, cfResult, cfCreated>>

CfNext ==
    \/ \E directory \in Dirs, config \in Configs : CfCreate(directory, config)
    \/ \E directory \in Dirs, caller \in {"find", "load"} : CfStart(directory, caller)
    \/ CfSearchStep
    \/ CfRead

----------------------------------------------------------------------------
(* Claims about the config file *)

\* the directories searched for d: d itself and every ancestor, nearest first
RECURSIVE SelfAndAncestors(_)
SelfAndAncestors(d) ==
    IF d = <<>> THEN <<d>> ELSE <<d>> \o SelfAndAncestors(Dirname(d))

FindReturned == cfPc \in {"read", "done"}

\* C11: findConfigFile(d) returns null exactly when neither d nor an ancestor
\* of d holds the config file, and otherwise the path of the file in the
\* nearest such directory.
C11_NearestConfig ==
    FindReturned =>
        LET chain == SelfAndAncestors(cfDir)
            hits == {i \in 1..Len(chain) : cfFs[chain[i]].exists}
        IN  /\ cfResult.isNull <=> hits = {}
            /\ hits # {} =>
                 cfResult.path =
                    ConfigPathIn(chain[CHOOSE i \in hits : \A j \in hits : i <= j])

\* C12: after createConfigFile(dir, c), which returns the path of the config
\* file in dir and leaves it existing, loadConfig(dir) returns a config equal
\* to c.
C12_RoundTrip ==
    (cfPc = "done" /\ cfCaller = "load" /\ cfCreated.done /\ cfCreated.dir = cfDir) =>
        /\ cfCreated.path = ConfigPathIn(cfDir)
        /\ cfFs[cfDir].exists
        /\ ~cfLoaded.isNull
        /\ cfLoaded.config = cfCreated.config

----------------------------------------------------------------------------
(* mergeOptions and the action of the analyze command *)

\* an optional value: undefined, or v
Undefined(v) == [def |-> FALSE, val |-> v]
Given(v) == [def |-> TRUE, val |-> v]

\* a ?? b
Coalesce(a, b) == IF a.def THEN a ELSE b

\* Math.min(Math.max(cpuCount * 2, 20), 200), cpuCount being os.cpus().length || 4
calculateOptimalConcurrency(cpus) ==
    LET cpuCount == IF cpus # 0 THEN cpus ELSE 4
        baseConcurrency == IF cpuCount * 2 > 20 THEN cpuCount * 2 ELSE 20
    IN  IF baseConcurrency < 200 THEN baseConcurrency ELSE 200

\* config?.field
ConfigField(config, field) ==
    IF config.isNull THEN Undefined(config[field].val) ELSE config[field]

\* mergeOptions(config, cliOptions)
mergeOptions(config, cliOptions, cpus) ==
    [ framework |->
        IF cliOptions.framework.def /\ cliOptions.framework.val # ""
        THEN cliOptions.framework ELSE ConfigField(config, "framework"),
      extensions |->
        IF cliOptions.extensions.def /\ Len(cliOptions.extensions.val) # 0
        THEN cliOptions.extensions ELSE ConfigField(config, "extensions"),
      exclude |->
        IF cliOptions.exclude.def /\ Len(cliOptions.exclude.val) # 0
        THEN cliOptions.exclude ELSE ConfigField(config, "exclude"),
      checkFileNames |->
        IF cliOptions.checkFileNames.def THEN cliOptions.checkFileNames
        ELSE Coalesce(ConfigField(config, "checkFileNames"), Given(TRUE)),
      checkFileContent |->
        IF cliOptions.checkFileContent.def THEN cliOptions.checkFileContent
        ELSE Coalesce(ConfigField(config, "checkFileContent"), Given(TRUE)),
      writeJsonOutput |->
        IF cliOptions.writeJsonOutput.def THEN cliOptions.writeJsonOutput
        ELSE Coalesce(ConfigField(config, "writeJsonOutput"), Given(FALSE)),
      showProgress |-> Coalesce(ConfigField(config, "showProgress"), Given(TRUE)),
      maxConcurrency |->
        Coalesce(ConfigField(config, "maxConcurrency"),
                 Given(calculateOptimalConcurrency(cpus))) ]

\* ext.startsWith(".") ? ext : "." + ext, for every extension
FixExtensions(exts) ==
    [i \in 1..Len(exts) |->
        IF StartsWith(exts[i], <<".">>) THEN exts[i] ELSE <<".">> \o exts[i]]

\* finalOptions of the action: the merged options, the extensions with their
\* dot, and maxConcurrency of the command line when it is given
FinalOptions(config, cliOptions, cpus) ==
    LET mergedOptions == mergeOptions(config, cliOptions, cpus)
    IN  [mergedOptions EXCEPT
            !.extensions = IF @.def THEN Given(FixExtensions(@.val)) ELSE @,
            !.maxConcurrency = IF cliOptions.maxConcurrency.def
                               THEN cliOptions.maxConcurrency ELSE @]

\* config files as loadConfig returns them
OpConfigNull ==
    [isNull |-> TRUE, framework |-> Undefined(""), extensions |-> Undefined(<<>>),
     exclude |-> Undefined(<<>>), checkFileNames |-> Undefined(FALSE),
     checkFileContent |-> Undefined(FALSE), writeJsonOutput |-> Undefined(FALSE),
     showProgress |-> Undefined(FALSE), maxConcurrency |-> Undefined(0)]

OpConfigFull ==
    [isNull |-> FALSE, framework |-> Given("react"),
     extensions |-> Given(<<<<".", "j", "s">>>>), exclude |-> Given(<<<<"d">>>>),
     checkFileNames |-> Given(TRUE), checkFileContent |-> Given(FALSE),
     writeJsonOutput |-> Given(TRUE), showProgress |-> Given(TRUE),
     maxConcurrency |-> Given(7)]

OpConfigQuiet ==
    [OpConfigFull EXCEPT !.checkFileNames = Given(FALSE),
                         !.checkFileContent = Given(TRUE),
                         !.writeJsonOutput = Given(FALSE),
                         !.showProgress = Given(FALSE)]

OpConfigSparse ==
    [OpConfigNull EXCEPT !.isNull = FALSE, !.extensions = Given(<<>>)]

OpConfigs == {OpConfigNull, OpConfigFull, OpConfigQuiet, OpConfigSparse}

OptionalBooleans == {Undefined(FALSE), Given(TRUE), Given(FALSE)}

\* the options of the command line: lists default to [], progress to true
OpClis ==
    [ framework : {Undefined(""), Given("vue")},
      extensions : {Given(<<>>), Given(<<<<"t", "s">>, ExtTsx>>)},
      exclude : {Given(<<>>), Given(<<<<"o", "u", "t">>>>)},
      checkFileNames : OptionalBooleans,
      checkFileContent : OptionalBooleans,
      writeJsonOutput : OptionalBooleans,
      progress : BOOLEAN,
      maxConcurrency : {Undefined(0)} \cup {Given(n) : n \in 1..MaxWidth} ]

NoOptions ==
    [framework |-> Undefined(""), extensions |-> Undefined(<<>>),
     exclude |-> Undefined(<<>>), checkFileNames |-> Undefined(FALSE),
     checkFileContent |-> Undefined(FALSE), writeJsonOutput |-> Undefined(FALSE),
     showProgress |-> Undefined(FALSE), maxConcurrency |-> Undefined(0)]

OpInit ==
    /\ opConfig \in OpConfigs
    /\ opCli \in OpClis
    /\ opCpus \in {0, 64}
    /\ opPc = "parsed"
    /\ opFinal = NoOptions

OpIdle ==
    /\ opConfig = OpConfigNull
    /\ opCli = [framework |-> Undefined(""), extensions |-> Given(<<>>),
                exclude |-> Given(<<>>), checkFileNames |-> Undefined(FALSE),
                checkFileContent |-> Undefined(FALSE),
                writeJsonOutput |-> Undefined(FALSE), progress |-> TRUE,
                maxConcurrency |-> Undefined(0)]
    /\ opCpus = 0
    /\ opPc = "off"
    /\ opFinal = NoOptions

\* the action refuses to run when both checks are switched off
OpRefuse ==
    /\ opPc = "parsed"
    /\ LET mergedOptions == mergeOptions(opConfig, opCli, opCpus)
       IN  /\ mergedOptions.checkFileNames = Given(FALSE)
           /\ mergedOptions.checkFileContent = Given(FALSE)
    /\ opPc' = "refused"
    /\ UNCHANGED <<opConfig, opCli, opCpus, opFinal>>

\* the action merges the options and hands them to runner
OpRun ==
    /\ opPc = "parsed"
    /\ LET mergedOptions == mergeOptions(opConfig, opCli, opCpus)
       IN  ~(/\ mergedOptions.checkFileNames = Given(FALSE)
             /\ mergedOptions.checkFileContent = Given(FALSE))
    /\ opFinal' = FinalOptions(opConfig, opCli, opCpus)
    /\ opPc' = "run"
    /\ UNCHANGED <<opConfig, opCli, opCpus>>

OpNext == OpRefuse \/ OpRun

----------------------------------------------------------------------------
(* Claims about the options *)

\* C13: when the command line gives a setting, the option handed to the
\* analyzer is the value of the command line, whatever the config file says
\* (the extensions up to the dot the action puts in front of them; the
\* progress display is given by --no-progress).
C13_CommandLineWins ==
    opPc = "run" =>
        /\ opCli.framework.def => opFinal.framework = opCli.framework
        /\ Len(opCli.extensions.val) # 0 =>
              opFinal.extensions = Given(FixExtensions(opCli.extensions.val))
        /\ Len(opCli.exclude.val) # 0 => opFinal.exclude = opCli.exclude
        /\ opCli.checkFileNames.def => opFinal.checkFileNames = opCli.checkFileNames
        /\ opCli.checkFileContent.def => opFinal.checkFileContent = opCli.checkFileContent
        /\ opCli.writeJsonOutput.def => opFinal.writeJsonOutput = opCli.writeJsonOutput
        /\ ~opCli.progress => opFinal.showProgress = Given(FALSE)
        /\ opCli.maxConcurrency.def => opFinal.maxConcurrency = opCli.maxConcurrency

----------------------------------------------------------------------------
(* The width chosen for a number of discovered files *)

WdInit ==
    /\ wdFileCount \in 0..MaxCount
    /\ wdProvided \in 0..MaxWidth
    /\ wdKeys = 0
    /\ wdCodebase = 0

WdIdle ==
    /\ wdFileCount = 0
    /\ wdProvided = 0
    /\ wdKeys = 0
    /\ wdCodebase = 0

\* findUnusedKeys chooses its width
WdFindUnusedKeys ==
    /\ wdKeys = 0
    /\ wdKeys' = MaxConcurrency(wdProvided, wdFileCount)
    /\ UNCHANGED <<wdFileCount, wdProvided, wdCodebase>>

\* analyzeCodebase chooses its width; it returns before that when no file
\* was found
WdAnalyzeCodebase ==
    /\ wdFileCount > 0
    /\ wdCodebase = 0
    /\ wdCodebase' = CbMaxConcurrency(wdProvided, wdFileCount)
    /\ UNCHANGED <<wdFileCount, wdProvided, wdKeys>>

WdNext == WdFindUnusedKeys \/ WdAnalyzeCodebase

----------------------------------------------------------------------------
(* Claims about the width *)

\* the default width as documented: 20 below 100 files, 25 from 100 to 500
\* files, 30 above 500 files
DocumentedWidth(n) == IF n < 100 THEN 20 ELSE IF n <= 500 THEN 25 ELSE 30

\* C14: when no maxConcurrency is given, the width chosen for n files is 20
\* for n < 100, 25 for 100 <= n <= 500 and 30 for n > 500, in findUnusedKeys
\* and in analyzeCodebase.
C14_DefaultWidth ==
    wdProvided = 0 =>
        /\ wdKeys # 0 => wdKeys = DocumentedWidth(wdFileCount)
        /\ wdCodebase # 0 => wdCodebase = DocumentedWidth(wdFileCount)

----------------------------------------------------------------------------
(* whatCase on enumerated names *)

\* one character of every class the patterns tell apart
NameChars == {"a", "A", "0", "_", "-", " ", ".", "/", NL}

Names == SeqsOf(NameChars, 0, MaxName)

NcInit ==
    /\ ncName \in Names
    /\ ncLabel = ""
    /\ ncFn = ""

NcIdle ==
    /\ ncName = <<>>
    /\ ncLabel = "off"
    /\ ncFn = ""

\* whatCase(str)
NcWhatCase ==
    /\ ncLabel = ""
    /\ ncLabel' = whatCase(ncName)
    /\ ncFn' = "whatCase"
    /\ UNCHANGED ncName

\* analyzeFileName(fileName), for the base name analyzeFile hands over: a
\* name that is not empty and holds no slash
NcAnalyzeFileName ==
    /\ ncLabel = ""
    /\ ncName # <<>>
    /\ \A i \in 1..Len(ncName) : ncName[i] # "/"
    /\ ncLabel' = analyzeFileName(ncName)
    /\ ncFn' = "analyzeFileName"
    /\ UNCHANGED ncName

NcNext ==
    \/ NcWhatCase
    \/ NcAnalyzeFileName

----------------------------------------------------------------------------
(* Claims about whatCase *)

Labels == {NamingCasesArray[i].type : i \in 1..Len(NamingCasesArray)}

\* C15: for each of the 13 labels other than Unknown there is a name for
\* which whatCase returns that label.
C15_EveryLabelDetected ==
    ncLabel \in Labels =>
        \A label \in Labels \ {"Unknown"} :
            \E name \in Names : whatCase(name) = label

\* the labels in the declaration order of NamingCases
DeclarationOrder ==
    <<"CamelCase", "PascalCase", "SnakeCase", "UpperCase", "LowerCase",
      "KebabCase", "StartCase", "DotCase", "PathCase", "SpaceCase", "NoCase",
      "ConstantCase", "SentenceCase", "Unknown">>

\* the positions, in declaration order, of the patterns that match str
MatchingAt(str) ==
    {i \in 1..Len(DeclarationOrder) :
        /\ NamingCasesArray[i].type = DeclarationOrder[i]
        /\ RegexpTest(NamingCasesArray[i], str)}

\* C23: whatCase is total: for every string, the empty one included, it
\* returns one label, that of the first pattern in declaration order that
\* matches the whole string, and Unknown when no pattern matches.
C23_FirstMatchingLabel ==
    ncFn = "whatCase" =>
        /\ ncLabel \in Labels
        /\ Len(NamingCasesArray) = Len(DeclarationOrder)
        /\ \A i \in 1..Len(DeclarationOrder) :
              NamingCasesArray[i].type = DeclarationOrder[i]
        /\ IF MatchingAt(ncName) = {}
           THEN ncLabel = "Unknown"
           ELSE \E i \in MatchingAt(ncName) :
                   /\ ncLabel = DeclarationOrder[i]
                   /\ \A j \in MatchingAt(ncName) : i <= j

\* a name that several patterns match has got the label of the first
C23_Witness ==
    /\ ncFn = "whatCase"
    /\ ncName = <<"a", "0">>
    /\ Cardinality(MatchingAt(ncName)) > 1
    /\ ncLabel = "CamelCase"

----------------------------------------------------------------------------
(* Claims about the ToDo count and the sign of the counters *)

\* the number of lines of content whose trimmed text contains the marker
ToDoLines(content) ==
    LET ls == SplitChar(content, NL)
    IN  Cardinality({i \in 1..Len(ls) : isToDo(Trim(ls[i]))})

\* C16: a call raises ToDo by the number of physical lines whose trimmed text
\* contains TODO, whatever the comment state of the line (here for the first
\* call on an accumulator, which starts at 0).
C16_ToDoCountsEveryLine ==
    (lcPc = "idle" /\ lcCalls = 1) => output.ToDo = ToDoLines(lcContent)

Fields ==
    {"Physical", "Source", "Comment", "SingleLineComment", "BlockComment",
     "Mixed", "EmptyBlockComment", "Empty", "ToDo"}

\* C17: after any sequence of calls on an accumulator that starts at 0, every
\* field of the accumulator is a non-negative integer.
C17_CountersNonNegative ==
    lcPc = "idle" => \A f \in Fields : output[f] \in Nat

----------------------------------------------------------------------------
(* Claims about failing files, workers in flight and the order of batches *)

\* the keys a pattern of findUnusedKeys finds in the content of file i
MatchesOf(i) ==
    {ksAllKeys[k].path : k \in
        {x \in 1..Len(ksAllKeys) :
            \/ StaticMatch(ksFiles[i].content, ksAllKeys[x].path)
            \/ DynamicMatch(ksFiles[i].content, ksAllKeys[x].path)}}

\* C18: in analyzeCodebase and in findUnusedKeys, for every width of at least
\* 1, a run in which no cancellation is requested and the translation file
\* parses is not aborted by a file that cannot be read: every file is handed
\* to a worker and the run ends with its normal outcome.
C18_FailingFileDoesNotAbort ==
    /\ (cbPc \in {"done", "failed"} /\ ~cbCancelled /\ cbWidths[cbRun] >= 1) =>
          /\ cbPc = "done"
          /\ \A i \in 1..Len(cbFiles) : cbWorker[i] # "new"
    /\ (ksFind \in {"returned", "cancelled"} /\ ~globalCancelled /\ ksProvided >= 1) =>
          /\ ksFind = "returned"
          /\ \A i \in 1..Len(ksFiles) : ksWorker[i] = "fulfilled"
          /\ processedFiles = Len(ksFiles)

KsBatchOf(i) ==
    CHOOSE j \in 0..(Len(ksBatches) - 1) : i \in WorkersOf(j)

\* the chunk (0-based) of analyzeCodebase that file i belongs to
CbChunkOf(i) ==
    CHOOSE j \in 0..(Len(cbChunks) - 1) :
        \E k \in 1..Len(cbChunks[j + 1]) : cbChunks[j + 1][k] = i

----------------------------------------------------------------------------
(* Claims about the partition into batches *)

\* the concatenation of the batches of bs
RECURSIVE Concat(_)
Concat(bs) == IF bs = <<>> THEN <<>> ELSE Head(bs) \o Concat(Tail(bs))

\* bs cuts the list 1..n into consecutive slices of width w
ConsecutiveSlices(bs, n, w) ==
    /\ Concat(bs) = [i \in 1..n |-> i]
    /\ \A j \in 1..Len(bs) :
          /\ Len(bs[j]) >= 1
          /\ Len(bs[j]) <= w
          /\ j < Len(bs) => Len(bs[j]) = w

\* C21: for every file list and every width of at least 1 the batches built
\* by findUnusedKeys and the chunks built by analyzeCodebase are consecutive
\* slices of the file list, each of at most the width and all but the last of
\* exactly the width, whose concatenation is the file list; and in a run that
\* is not cancelled every discovered file has been handed to a worker.
C21_BatchesPartitionFiles ==
    /\ ksBatches # <<>> =>
          ConsecutiveSlices(ksBatches, Len(ksFiles),
                            MaxConcurrency(ksProvided, Len(ksFiles)))
    /\ cbChunks # <<>> =>
          ConsecutiveSlices(cbChunks, Len(cbFiles),
                            CbMaxConcurrency(cbWidths[cbRun], Len(cbFiles)))
    /\ (ksFind = "returned" /\ ~globalCancelled) =>
          \A i \in 1..Len(ksFiles) : ksWorker[i] \in Settled
    /\ (cbPc \in {"done", "failed"} /\ ~cbCancelled) =>
          \A i \in 1..Len(cbFiles) : cbWorker[i] # "new"

----------------------------------------------------------------------------
(* Claims about the paths of the flattened keys *)

\* C22: for every tree the path values of the entries returned by flattenKeys
\* are pairwise distinct, also when a key segment holds the '.' character.
C22_PathsDistinct ==
    trPc \in {"flat", "removing"} =>
        \A i, j \in 1..Len(trFlat) :
            i # j => trFlat[i].path # trFlat[j].path

----------------------------------------------------------------------------
(* Claims about the analysis toggles *)

\* C24: in analyzeCodebase, with checkFileContent false and checkFileNames
\* true no line classification is run and every counter stays 0; with
\* checkFileNames false and checkFileContent true no naming classification is
\* run and the bucket of naming cases stays empty.
C24_TogglesSelectAnalysis ==
    /\ (cbOpts.checkFileNames /\ ~cbOpts.checkFileContent) =>
          cbOutput = ZeroOutput
    /\ (cbOpts.checkFileContent /\ ~cbOpts.checkFileNames) =>
          cbCases = NoCases

----------------------------------------------------------------------------
(* CancellationToken, handleSignal, resetCancellation *)

TkEnded == {"exit130", "exit143", "killed"}

NoOp == [name |-> "", result |-> ""]

TkInit ==
    /\ tkCancelled = FALSE
    /\ tkRegistered = FALSE
    /\ tkListeners = <<>>
    /\ tkToken = FALSE
    /\ tkTimer = FALSE
    /\ tkExit = "running"
    /\ tkOp = NoOp
    /\ tkRegs = <<>>
    /\ tkSets = <<>>
    /\ tkInvoked = <<>>
    /\ tkResets = 0

TkIdle ==
    /\ tkCancelled = FALSE
    /\ tkRegistered = FALSE
    /\ tkListeners = <<>>
    /\ tkToken = FALSE
    /\ tkTimer = FALSE
    /\ tkExit = "off"
    /\ tkOp = NoOp
    /\ tkRegs = <<>>
    /\ tkSets = <<>>
    /\ tkInvoked = <<>>
    /\ tkResets = 0

\* listeners.forEach((listener) => { try { listener() } catch {} }): the
\* registrations that are invoked, in order; an error is caught and ignored
RECURSIVE InvokeAll(_, _)
InvokeAll(ls, regs) ==
    IF ls = <<>> THEN <<>>
    ELSE IF regs[Head(ls)].throws
    THEN <<Head(ls)>> \o InvokeAll(Tail(ls), regs)
    ELSE <<Head(ls)>> \o InvokeAll(Tail(ls), regs)

\* handleSignal without the test of the flag
handleSignal_Always(signal) ==
    /\ tkCancelled' = TRUE
    /\ tkInvoked' = tkInvoked \o InvokeAll(tkListeners, tkRegs)
    /\ tkSets' = Append(tkSets, [epoch |-> tkResets, regs |-> Len(tkRegs)])

\* handleSignal(signal), up to the exit of the process
handleSignal(signal) ==
    IF ~tkCancelled
    THEN /\ tkCancelled' = TRUE
         /\ tkInvoked' = tkInvoked \o InvokeAll(tkListeners, tkRegs)
         /\ tkSets' = Append(tkSets, [epoch |-> tkResets, regs |-> Len(tkRegs)])
    ELSE UNCHANGED <<tkCancelled, tkInvoked, tkSets>>

\* the constructor resets the flag
TkConstruct_Resets ==
    /\ tkExit = "running"
    /\ tkToken' = TRUE
    /\ tkRegistered' = TRUE
    /\ tkCancelled' = FALSE
    /\ tkOp' = [name |-> "new", result |-> ""]
    /\ UNCHANGED <<tkListeners, tkTimer, tkExit, tkRegs, tkSets,
                   tkInvoked, tkResets>>

\* new CancellationToken(): the signal handlers are registered once
TkConstruct ==
    /\ tkExit = "running"
    /\ tkToken' = TRUE
    /\ tkRegistered' = TRUE
    /\ tkOp' = [name |-> "new", result |-> ""]
    /\ UNCHANGED <<tkCancelled, tkListeners, tkTimer, tkExit, tkRegs, tkSets,
                   tkInvoked, tkResets>>

\* token.isCancelled()
TkIsCancelled ==
    /\ tkExit = "running"
    /\ tkToken
    /\ tkOp' = [name |-> "isCancelled",
                result |-> IF tkCancelled THEN "true" ELSE "false"]
    /\ UNCHANGED <<tkCancelled, tkRegistered, tkListeners, tkToken, tkTimer,
                   tkExit, tkRegs, tkSets, tkInvoked, tkResets>>

\* token.throwIfCancelled()
TkThrowIfCancelled ==
    /\ tkExit = "running"
    /\ tkToken
    /\ tkOp' = [name |-> "throwIfCancelled",
                result |-> IF tkCancelled THEN "thrown" ELSE "returned"]
    /\ UNCHANGED <<tkCancelled, tkRegistered, tkListeners, tkToken, tkTimer,
                   tkExit, tkRegs, tkSets, tkInvoked, tkResets>>

\* token.cancel()
TkCancel ==
    /\ tkExit = "running"
    /\ tkToken
    /\ handleSignal("manual")
    /\ tkOp' = [name |-> "cancel", result |-> ""]
    /\ UNCHANGED <<tkRegistered, tkListeners, tkToken, tkTimer, tkExit,
                   tkRegs, tkResets>>

\* token.onCancel(callback), with a callback that throws or does not
TkOnCancel(throws) ==
    /\ tkExit = "running"
    /\ tkToken
    /\ Len(tkRegs) < MaxCallbacks
    /\ tkListeners' = Append(tkListeners, Len(tkRegs) + 1)
    /\ tkRegs' = Append(tkRegs, [throws |-> throws, early |-> ~tkCancelled,
                                 epoch |-> tkResets])
    /\ tkOp' = [name |-> "onCancel", result |-> ""]
    /\ UNCHANGED <<tkCancelled, tkRegistered, tkToken, tkTimer, tkExit,
                   tkSets, tkInvoked, tkResets>>

\* SIGINT or SIGTERM is delivered: without a registered handler the process
\* is ended by the signal; the SIGINT handler exits at once, the SIGTERM
\* handler starts the timer of one second
TkSignal(signal) ==
    /\ tkExit = "running"
    /\ IF ~tkRegistered
       THEN /\ tkExit' = "killed"
            /\ UNCHANGED <<tkCancelled, tkInvoked, tkSets, tkTimer>>
       ELSE /\ handleSignal(signal)
            /\ tkExit' = IF signal = "SIGINT" THEN "exit130" ELSE tkExit
            /\ tkTimer' = (tkTimer \/ signal = "SIGTERM")
    /\ tkOp' = [name |-> signal, result |-> ""]
    /\ UNCHANGED <<tkRegistered, tkListeners, tkToken, tkRegs, tkResets>>

\* the timer of the SIGTERM handler fires: process.exit(143)
TkTermExit ==
    /\ tkExit = "running"
    /\ tkTimer
    /\ tkExit' = "exit143"
    /\ tkOp' = [name |-> "timer", result |-> ""]
    /\ UNCHANGED <<tkCancelled, tkRegistered, tkListeners, tkToken, tkTimer,
                   tkRegs, tkSets, tkInvoked, tkResets>>

\* resetCancellation()
TkReset ==
    /\ tkExit = "running"
    /\ tkResets < MaxResets
    /\ tkCancelled' = FALSE
    /\ tkListeners' = <<>>
    /\ tkResets' = tkResets + 1
    /\ tkOp' = [name |-> "resetCancellation", result |-> ""]
    /\ UNCHANGED <<tkRegistered, tkToken, tkTimer, tkExit, tkRegs, tkSets,
                   tkInvoked>>

TkNext ==
    \/ TkConstruct
    \/ TkIsCancelled
    \/ TkThrowIfCancelled
    \/ TkCancel
    \/ \E throws \in BOOLEAN : TkOnCancel(throws)
    \/ \E signal \in {"SIGINT", "SIGTERM"} : TkSignal(signal)
    \/ TkTermExit
    \/ TkReset

----------------------------------------------------------------------------
(* Claims about the cancellation flag and the cleanup callbacks *)

\* C25: the flag changes only from false to true, by cancel() or a signal,
\* and at most once between two calls of resetCancellation; once it is set,
\* constructing a token, isCancelled, cancel, onCancel, throwIfCancelled and
\* the signals leave it set: only resetCancellation sets it back to false.
C25_FlagOnlyRises ==
    [][/\ (tkCancelled /\ ~tkCancelled') => tkOp'.name = "resetCancellation"
       /\ (~tkCancelled /\ tkCancelled') =>
             tkOp'.name \in {"cancel", "SIGINT", "SIGTERM"}
       /\ Len(tkSets') <= tkResets' + 1]_vars

\* after the flag was set, a token has been constructed and the flag is
\* still set
C25_Witness ==
    /\ tkCancelled
    /\ Len(tkSets) = 1
    /\ tkOp.name = "new"

\* the number of times registration r has been invoked
Invocations(r) ==
    Cardinality({i \in 1..Len(tkInvoked) : tkInvoked[i] = r})

\* C28 (as claimed): every callback registered before the flag is first set
\* is invoked exactly once when the flag is set, in registration order, also
\* when an earlier callback throws; further calls of cancel invoke nothing,
\* and a callback registered while the flag is set is never invoked.
C28_CallbacksRunOnce ==
    /\ \A r \in 1..Len(tkRegs) :
          /\ (tkSets # <<>> /\ r <= tkSets[1].regs) => Invocations(r) = 1
          /\ ~tkRegs[r].early => Invocations(r) = 0
    /\ \A i, j \in 1..Len(tkInvoked) : i < j => tkInvoked[i] < tkInvoked[j]

\* C28 (amended): a callback registered while the flag is not set is invoked
\* exactly once when the flag is next set, unless resetCancellation was called
\* in between, which drops it; the callbacks run in registration order, also
\* when an earlier one throws; further calls of cancel invoke nothing, and a
\* callback registered while the flag is set is never invoked.
C28_CallbacksRunOnceUnlessReset ==
    /\ \A r \in 1..Len(tkRegs) :
          Invocations(r) =
             IF /\ tkRegs[r].early
                /\ \E s \in 1..Len(tkSets) :
                      /\ tkSets[s].epoch = tkRegs[r].epoch
                      /\ r <= tkSets[s].regs
             THEN 1 ELSE 0
    /\ \A i, j \in 1..Len(tkInvoked) : i < j => tkInvoked[i] < tkInvoked[j]

\* two callbacks, the first of which throws, have both been invoked, and
\* cancel has been called once more
C28_Witness ==
    /\ Len(tkRegs) = 2
    /\ tkRegs[1].throws
    /\ tkRegs[1].early /\ tkRegs[2].early
    /\ tkInvoked = <<1, 2>>
    /\ tkCancelled
    /\ tkOp = [name |-> "throwIfCancelled", result |-> "thrown"]

----------------------------------------------------------------------------
(* Claims about the order in which the reads of a batch complete *)

\* some file that can be read matches the key with a static or a dynamic
\* pattern of the key
UsedBySomeFile(path) ==
    \E i \in 1..Len(ksFiles) :
        /\ ksFiles[i].readable
        /\ \/ StaticMatch(ksFiles[i].content, path)
           \/ DynamicMatch(ksFiles[i].content, path)

\* C26: for a fixed key set and fixed file contents the unused-key list that
\* an uncancelled run of findUnusedKeys returns is a function of the keys and
\* the contents alone (the keys that no readable file matches, in key order),
\* so it is the same for every maxConcurrency and every order in which the
\* reads of a batch complete, although a file skips the keys that a file
\* finished earlier has marked.
C26_ResultIndependentOfOrder ==
    ksFind = "returned" =>
        ksUnused = SelectSeq(ksAllKeys, LAMBDA k : ~UsedBySomeFile(k.path))

\* the two files of one batch completed in the reverse order: the second
\* marked a key statically and the first then skipped it; a key is left over
C26_Witness ==
    /\ ksFind = "returned"
    /\ Len(ksFiles) = 2
    /\ Len(ksBatches) = 1
    /\ ksFiles[1].content = SrcTemplateA
    /\ ksFiles[2].content = SrcStaticAB
    /\ ksStatic # {}
    /\ dynamicKeys # {}
    /\ ksUnused # <<>>

----------------------------------------------------------------------------
(* writeAnalyzeResult, makeMigrationFromLastFileSystem, readAnalyzeResult *)

(* What JSON.parse gives for a stored file is a record [kind, fileCount,     *)
(* output, sameAsBefore, totalAnalyzeCount, results]: an IAnalyzeResult has  *)
(* kind "result", an IAnalyzeDataOutput has kind "data"; a field the object  *)
(* does not have is undefined: 0 for fileCount (a stored result counts at    *)
(* least one file), "undefined" for output, 0 for sameAsBefore.  Dates are   *)
(* left out.                                                                 *)

MissingOutput == "undefined"

NoData == [kind |-> "none", fileCount |-> 0, output |-> MissingOutput,
           sameAsBefore |-> 0, totalAnalyzeCount |-> 0, results |-> <<>>]

AnalyzeResult(fileCount, out) ==
    [kind |-> "result", fileCount |-> fileCount, output |-> out,
     sameAsBefore |-> 0, totalAnalyzeCount |-> 0, results |-> <<>>]

AnalyzeDataOutput(count, results) ==
    [kind |-> "data", fileCount |-> 0, output |-> MissingOutput,
     sameAsBefore |-> 0, totalAnalyzeCount |-> count, results |-> results]

\* the results a caller hands over: one or two files, one of two outputs
StResults == {AnalyzeResult(n, out) : n \in 1..2, out \in {"p", "q"}}

StInit ==
    /\ stDir \in BOOLEAN
    /\ stData = NoData
    /\ stPc = "idle"
    /\ stArg = NoData
    /\ stOutcome = ""
    /\ stCalls = 0
    /\ stWritten = <<>>

StIdle ==
    /\ stDir = FALSE
    /\ stData = NoData
    /\ stPc = "off"
    /\ stArg = NoData
    /\ stOutcome = ""
    /\ stCalls = 0
    /\ stWritten = <<>>

\* the result as it is pushed: sameAsBefore is set when the last stored
\* result has the same fileCount, fileNameCases and output
Pushed(results, result) ==
    IF results = <<>> THEN result
    ELSE LET lastResult == results[Len(results)]
         IN  IF /\ lastResult.fileCount = result.fileCount
                /\ lastResult.output = result.output
             THEN [result EXCEPT !.sameAsBefore = lastResult.sameAsBefore + 1]
             ELSE result

\* writeAnalyzeResult(directory, result) is called
StCall(result) ==
    /\ stPc = "idle"
    /\ stCalls < MaxWrites
    /\ stPc' = "migrate"
    /\ stArg' = result
    /\ stCalls' = stCalls + 1
    /\ UNCHANGED <<stDir, stData, stOutcome, stWritten>>

\* await makeMigrationFromLastFileSystem(directory + "/.analyze-codebase/"):
\* readAnalyzeResult looks for .analyze-codebase/.analyze-codebase/data.json,
\* which does not exist, so the directory .analyze-codebase is traversed for
\* the files ending in .json; readdir fails when the directory is missing,
\* and what is found is written to .analyze-codebase//data.json
StMigrate ==
    /\ stPc = "migrate"
    /\ IF ~stDir
       THEN /\ stPc' = "idle"
            /\ stOutcome' = "rejected"
            /\ UNCHANGED stData
       ELSE LET oldAnalyzes == IF stData = NoData THEN <<>> ELSE <<stData>>
            IN  /\ stData' = IF Len(oldAnalyzes) > 0
                             THEN AnalyzeDataOutput(Len(oldAnalyzes), oldAnalyzes)
                             ELSE stData
                /\ stPc' = "append"
                /\ UNCHANGED stOutcome
    /\ UNCHANGED <<stDir, stArg, stCalls, stWritten>>

\* the rest of writeAnalyzeResult: the store is read or created, the result
\* is pushed and data.json is written
StAppend ==
    /\ stPc = "append"
    /\ LET existData == stData
           data == IF existData # NoData
                   THEN [existData EXCEPT !.totalAnalyzeCount = @ + 1]
                   ELSE AnalyzeDataOutput(1, <<>>)
           result == Pushed(data.results, stArg)
       IN  /\ stData' = [data EXCEPT !.results = Append(@, result)]
           /\ stWritten' = Append(stWritten, result)
    /\ stDir' = TRUE
    /\ stPc' = "idle"
    /\ stOutcome' = "resolved"
    /\ UNCHANGED <<stArg, stCalls>>

StNext ==
    \/ \E result \in StResults : StCall(result)
    \/ StMigrate
    \/ StAppend

----------------------------------------------------------------------------
(* Claims about the stored history *)

\* C27: starting without stored history, after n calls of writeAnalyzeResult
\* data.json holds totalAnalyzeCount = n and the n written results in call
\* order: every call creates the store when it is missing, appends one
\* result and keeps the earlier results unchanged.
C27_StoreHoldsEveryResult ==
    (stPc = "idle" /\ stCalls > 0) =>
        /\ stOutcome = "resolved"
        /\ stData # NoData
        /\ stData.totalAnalyzeCount = stCalls
        /\ stData.results = stWritten

----------------------------------------------------------------------------
(* Claims about the termination of the line classifier *)

\* "/* a\n b": a block comment that is never closed
UnclosedBlock == <<"/", "*", " ", "a", NL, " ", "b">>

\* the line at index i (0-based) opens or continues a block comment and no
\* line from it on ends with the close marker
Unterminated(ls, i) ==
    /\ isMixedComment(Trim(ls[i + 1]))
    /\ \A k \in (i + 1)..Len(ls) : ~EndsWith(ls[k], CLOSE)

\* C29: analyzeLineCountByCategory terminates on every file content: every
\* iteration of the outer loop strictly increases the line index, an
\* iteration on a block comment that is never closed moves the index past
\* the last line, and every call that was entered returns.
C29_ClassifierTerminates ==
    /\ [][(lcPc = "loop" /\ lcPc' = "loop") =>
             /\ lineIndex' > lineIndex
             /\ Unterminated(lines, lineIndex) => lineIndex' > Len(lines)]_vars
    /\ (lcPc = "loop") ~> (lcPc = "idle")

\* the call on the unclosed block has returned: the one iteration stepped
\* over both lines
C29_Witness ==
    /\ lcPc = "idle"
    /\ lcCalls = 1
    /\ lcContent = UnclosedBlock
    /\ lineIndex = 3
    /\ output.Physical = 1
    /\ output.EmptyBlockComment = 2

----------------------------------------------------------------------------
(* Claims about analyzeFileName *)

\* the base name without its extension (the part from the last dot on, when
\* that dot is not the first character)
BareName(name) == SubSeq(name, 1, Len(name) - Len(Extname(name)))

\* "my-f" and "my_f", names without extension
KebabName == <<"m", "y", "-", "f">>

SnakeName == <<"m", "y", "_", "f">>

\* C30: analyzeFileName classifies the base name with its extension removed;
\* for a name without extension the whole name is classified, so that a name
\* like my-f is KebabCase and a name like my_f is SnakeCase.
C30_BareNameIsClassified ==
    /\ ncFn = "analyzeFileName" => ncLabel = whatCase(BareName(ncName))
    /\ ncFn # "" => /\ analyzeFileName(KebabName) = "KebabCase"
                    /\ analyzeFileName(SnakeName) = "SnakeCase"

----------------------------------------------------------------------------
(* Specifications *)

Init == LcInit /\ TrIdle /\ KsIdle /\ CbIdle /\ CfIdle /\ OpIdle /\ WdIdle /\ NcIdle /\ TkIdle /\ StIdle

Next == LcNext /\ UNCHANGED <<trVars, ksVars, cbVars, cfVars, opVars, wdVars, ncVars, tkVars, stVars>>

\* the line classifier, file after file on one accumulator
Spec == Init /\ [][Next]_vars

InitTree == TrInit /\ LcInit /\ KsIdle /\ CbIdle /\ CfIdle /\ OpIdle /\ WdIdle /\ NcIdle /\ TkIdle /\ StIdle

NextTree == TrNext /\ UNCHANGED <<lcVars, ksVars, cbVars, cfVars, opVars, wdVars, ncVars, tkVars, stVars>>

\* flattening a translation tree and removing keys from it
SpecTree == InitTree /\ [][NextTree]_vars

InitKeys == KsInit /\ LcInit /\ TrIdle /\ CbIdle /\ CfIdle /\ OpIdle /\ WdIdle /\ NcIdle /\ TkIdle /\ StIdle

NextKeys == KsNext /\ UNCHANGED <<lcVars, trVars, cbVars, cfVars, opVars, wdVars, ncVars, tkVars, stVars>>

\* one run of analyzeAndRemoveUnusedKeys, with signals
SpecKeys == InitKeys /\ [][NextKeys]_vars

InitCodebase == CbInit /\ LcInit /\ TrIdle /\ KsIdle /\ CfIdle /\ OpIdle /\ WdIdle /\ NcIdle /\ TkIdle /\ StIdle

NextCodebase == CbNext /\ UNCHANGED <<lcVars, trVars, ksVars, cfVars, opVars, wdVars, ncVars, tkVars, stVars>>

\* two runs of analyzeCodebase over the same files, with signals
SpecCodebase == InitCodebase /\ [][NextCodebase]_vars

InitConfig == CfInit /\ LcInit /\ TrIdle /\ KsIdle /\ CbIdle /\ OpIdle /\ WdIdle /\ NcIdle /\ TkIdle /\ StIdle

NextConfig == CfNext /\ UNCHANGED <<lcVars, trVars, ksVars, cbVars, opVars, wdVars, ncVars, tkVars, stVars>>

\* creating a config file, then searching for it or loading it
SpecConfig == InitConfig /\ [][NextConfig]_vars

InitOptions == OpInit /\ LcInit /\ TrIdle /\ KsIdle /\ CbIdle /\ CfIdle /\ WdIdle /\ NcIdle /\ TkIdle /\ StIdle

NextOptions == OpNext /\ UNCHANGED <<lcVars, trVars, ksVars, cbVars, cfVars, wdVars, ncVars, tkVars, stVars>>

\* the analyze command: the config and the command line merged into options
SpecOptions == InitOptions /\ [][NextOptions]_vars

InitWidth ==
    WdInit /\ LcInit /\ TrIdle /\ KsIdle /\ CbIdle /\ CfIdle /\ OpIdle /\ NcIdle /\ TkIdle /\ StIdle

NextWidth ==
    WdNext /\ UNCHANGED <<lcVars, trVars, ksVars, cbVars, cfVars, opVars, ncVars, tkVars, stVars>>

\* the width both orchestrators choose for a number of files
SpecWidth == InitWidth /\ [][NextWidth]_vars

InitNames ==
    NcInit /\ LcInit /\ TrIdle /\ KsIdle /\ CbIdle /\ CfIdle /\ OpIdle /\ WdIdle /\ TkIdle /\ StIdle

NextNames ==
    NcNext /\ UNCHANGED <<lcVars, trVars, ksVars, cbVars, cfVars, opVars, wdVars, tkVars, stVars>>

\* whatCase applied to a name
SpecNames == InitNames /\ [][NextNames]_vars

InitScan ==
    /\ (KsInit /\ CbIdle) \/ (KsIdle /\ CbInit)
    /\ LcInit /\ TrIdle /\ CfIdle /\ OpIdle /\ WdIdle /\ NcIdle /\ TkIdle /\ StIdle

NextScan ==
    \/ ksPc # "off" /\ KsNext
          /\ UNCHANGED <<lcVars, trVars, cbVars, cfVars, opVars, wdVars, ncVars, tkVars, stVars>>
    \/ cbPc # "off" /\ CbNext
          /\ UNCHANGED <<lcVars, trVars, ksVars, cfVars, opVars, wdVars, ncVars, tkVars, stVars>>

\* a run of either orchestrator: findUnusedKeys or analyzeCodebase
SpecScan == InitScan /\ [][NextScan]_vars

InitToken == TkInit /\ LcInit /\ TrIdle /\ KsIdle /\ CbIdle /\ CfIdle /\ OpIdle /\ WdIdle /\ NcIdle /\ StIdle

NextToken == TkNext /\ UNCHANGED <<lcVars, trVars, ksVars, cbVars, cfVars, opVars, wdVars, ncVars, stVars>>

\* the operations of the cancellation token, signals and resetCancellation
SpecToken == InitToken /\ [][NextToken]_vars

InitStore == StInit /\ LcInit /\ TrIdle /\ KsIdle /\ CbIdle /\ CfIdle /\ OpIdle /\ WdIdle /\ NcIdle /\ TkIdle

NextStore == StNext /\ UNCHANGED <<lcVars, trVars, ksVars, cbVars, cfVars, opVars, wdVars, ncVars, tkVars>>

\* calls of writeAnalyzeResult on a project directory without history
SpecStore == InitStore /\ [][NextStore]_vars

\* the line classifier, whose loops keep running once a call is entered
SpecFair == Init /\ [][Next]_vars /\ WF_lcVars(LcIter) /\ WF_lcVars(LcFinish)

====
